---- MODULE Spec2Model ----
(***************************************************************************)
(* Model of the nt_data connectors and of MarketDataService.               *)
(*                                                                         *)
(*   - SimulatedNinjaTraderClient: connect, disconnect, subscribe, cancel  *)
(*     and the generation loop of every subscription, as threads that      *)
(*     interleave step by step (connectors/ninjatrader_client.py).         *)
(*   - KinetickEODClient: the command-file / export-file handshake with an *)
(*     external agent, polled against a timeout.                           *)
(*   - MarketDataService.ensure_connection over a NinjaTraderClient whose  *)
(*     connect() may raise ConnectionError.                                *)
(*                                                                         *)
(* One client is built per run (cli/main.py, _build_client; each test      *)
(* builds its own): `provider` is the client built and `task` what the     *)
(* control thread uses it for.                                             *)
(***************************************************************************)
EXTENDS Integers, Sequences, FiniteSets, TLC

\* ------------------------------------------------------------------ bounds
MaxSubs == 2        \* subscribe_market_data calls made on the simulated client
MaxFail == 2        \* consecutive connect() failures of the unreliable client
MaxRequests == 2    \* request_historical_data calls on the Kinetick client
MaxRows == 2        \* data rows of an export file
MaxTimeout == 2     \* export_timeout, in poll intervals

Subs == 1..MaxSubs

Instruments == {"ES 12-25", "NQ 12-25"}

\* The runs modelled: the client built and the use made of it.
Runs == {<<"simulated", "realtime">>, <<"simulated", "historical">>,
         <<"kinetick", "historical">>, <<"unreliable", "realtime">>}

VARIABLES
    provider,       \* which NinjaTraderClient was built
    task,           \* what the control thread does with it
    connected,      \* NinjaTraderClient._connected
    \* --- SimulatedNinjaTraderClient
    globalStop,     \* self._stop_event
    subscriptions,  \* self._subscriptions, each entry named by its subscription
    lockHolder,     \* owner of self._lock: "none" or "disconnect"
    stopFlag,       \* stop_event of each subscription
    loopPc,         \* position of each subscription's _stream thread: "none"
                    \* (not started), "check" (in time.sleep or about to test
                    \* the while condition), "emit" (condition passed, on_tick
                    \* not yet called), "dead" (ended)
    subPc,          \* position of each subscribe_market_data call
    cancelPc,       \* position of each cancel() call
    joinTimedOut,   \* whether cancel()'s thread.join(timeout=1) gave up
    mainPc,         \* position of the control thread (connect/disconnect)
    discIdx,        \* disconnect(): index of the for loop over _subscriptions
    discOverlap,    \* a subscribe call overlapped the current disconnect()
    histOutcome,    \* simulated request_historical_data: how the last call ended
    histBars,       \* simulated request_historical_data: bars returned
    histArgs,       \* simulated request_historical_data: arguments of the last
                    \* call (instrument, timeframe, start, end)
    histPc,         \* simulated request_historical_data followed step by
                    \* step: "idle", "looping" (in the while loop), "returned"
    histCurrent,    \* its local variable current
    histDelta,      \* its local variable delta, in seconds
    \* --- MarketDataService.ensure_connection
    svcPc,          \* position inside ensure_connection
    svcOutcome,     \* how the last ensure_connection call ended
    svcEntryConnected, \* is_connected when ensure_connection was entered
    connectCalls,   \* connect() calls made by the current ensure_connection
    connectFails,   \* of which raised ConnectionError
    \* --- KinetickEODClient
    exportTimeout,  \* self._export_timeout, in poll intervals
    cmdFiles,       \* command ids whose cmd_<id>.txt exists
    exportFiles,    \* command ids whose <id>.csv exists
    exportRows,     \* rows last written to <reqId>.csv, the one export file read
    agentWritten,   \* command ids the external agent has answered
    nextId,         \* next uuid4 to hand out
    reqPc,          \* position inside request_historical_data
    reqId,          \* command_id of the current / last request
    reqInstrument,  \* its instrument argument
    reqTimeframe,   \* its timeframe argument
    reqElapsed,     \* time.time() - start_time, in poll intervals
    reqOutcome,     \* how the last request ended
    reqBars,        \* bars it returned
    \* --- MarketDataService.subscribe_realtime_ticks / stop_all
    mdsPc,          \* position of each subscribe_realtime_ticks call
    mdsSubscriptions, \* MarketDataService._subscriptions: the cancel functions
                    \* recorded, each named by its subscription
    mdsLock,        \* owner of MarketDataService._lock: "none" or "stop_all"
    stopPc,         \* position inside stop_all
    stopIdx,        \* stop_all: index of the for loop over _subscriptions
    stopCaller,     \* the thread running stop_all: 0 for the caller of the
                    \* service, or the subscription whose callback called it
    cancelCalls,    \* cancel functions invoked by the current stop_all, per
                    \* subscription
    cancelRaised,   \* subscriptions whose cancel raised inside the current stop_all
    cbInstrument,   \* the instrument of the last tick each subscription's
                    \* callback received, "none" before the first
    cbLog,          \* what each subscription's callback has done so far: "none",
                    \* "returned", "raised", or "recovered" (returned after it
                    \* had raised)
    \* --- HistoricalDataService.get_historical_bars
    hdsPc,          \* position inside get_historical_bars
    hdsArgs,        \* its arguments: instrument, timeframe, start, end
    hdsEntryConnected, \* is_connected when it was entered
    hdsConnectCalls,   \* connect() calls it has made
    hdsRequestCalls,   \* request_historical_data calls it has made
    hdsOutcome,     \* how the last get_historical_bars call ended
    hdsBars,        \* the bars it returned
    \* --- SQLiteStorageBackend
    tickRows,       \* the rows of table ticks, in rowid order
    barRows,        \* the rows of table bars, in rowid order
    savedTicks,     \* the TickData handed to the save_ticks calls that returned
    savedBars,      \* the BarData handed to the save_bars calls that returned
    lastCall,       \* the last storage call: its name and arguments
    lastCount,      \* what it returned if it was a save, -1 otherwise
    lastFetched,    \* what it returned if it was a fetch, <<>> otherwise
    \* --- the ticks of each subscription, numbered in the order they are built
    tickNo,         \* number of the last tick each _stream thread has built
    cbRunning,      \* on_tick invocations of each subscription now in progress
    cbTicks         \* the numbers of the ticks each callback was given, in order

runVars == <<provider, task>>
simVars == <<globalStop, subscriptions, lockHolder, stopFlag, loopPc, subPc,
             cancelPc, joinTimedOut, mainPc, discIdx, discOverlap>>
histVars == <<histOutcome, histBars, histArgs, histPc, histCurrent, histDelta>>
svcVars == <<svcPc, svcOutcome, svcEntryConnected, connectCalls, connectFails>>
kinVars == <<exportTimeout, cmdFiles, exportFiles, exportRows, agentWritten, nextId, reqPc,
             reqId, reqInstrument, reqTimeframe, reqElapsed, reqOutcome, reqBars>>
mdsVars == <<mdsPc, mdsSubscriptions, mdsLock, stopPc, stopIdx, stopCaller,
             cancelCalls, cancelRaised, cbInstrument, cbLog>>
\* The state of what is built over the connector.
hdsVars == <<hdsPc, hdsArgs, hdsEntryConnected, hdsConnectCalls,
             hdsRequestCalls, hdsOutcome, hdsBars>>
stoVars == <<tickRows, barRows, savedTicks, savedBars, lastCall, lastCount,
            lastFetched>>
ordVars == <<tickNo, cbRunning, cbTicks>>
extVars == <<mdsVars, hdsVars, stoVars, ordVars>>
vars == <<runVars, connected, simVars, histVars, svcVars, kinVars, extVars>>

\* ------------------------------------------------------------- helpers
Remove(seq, s) == SelectSeq(seq, LAMBDA x : x # s)

\* The control thread is between calls.
MainFree ==
    /\ mainPc \in {"idle", "returned"}
    /\ svcPc = "idle"
    /\ reqPc # "polling"
    /\ hdsPc \in {"idle", "done"}

\* ===================================================== simulated connector

\* SimulatedNinjaTraderClient.connect: sleep, then _set_connected(True).
\* self._stop_event is not touched. Callers check is_connected first
\* (market_data_service.py line 25, historical_data_service.py line 23).
Connect ==
    /\ provider = "simulated"
    /\ MainFree
    /\ ~connected
    /\ connected' = TRUE
    /\ mainPc' = "idle"
    /\ UNCHANGED <<runVars, extVars, globalStop, subscriptions, lockHolder, stopFlag,
                   loopPc, subPc, cancelPc, joinTimedOut, discIdx,
                   discOverlap, histVars, svcVars, kinVars>>

\* disconnect(), line 84: self._stop_event.set()
DisconnectBegin ==
    /\ provider = "simulated"
    /\ MainFree
    /\ globalStop' = TRUE
    /\ mainPc' = "wantlock"
    /\ discOverlap' = (\E s \in Subs : subPc[s] = "started")
    /\ UNCHANGED <<runVars, extVars, connected, subscriptions, lockHolder, stopFlag,
                   loopPc, subPc, cancelPc, joinTimedOut, discIdx,
                   histVars, svcVars, kinVars>>

\* disconnect(), line 85: with self._lock
DisconnectLock ==
    /\ mainPc = "wantlock"
    /\ lockHolder = "none"
    /\ lockHolder' = "disconnect"
    /\ discIdx' = 1
    /\ mainPc' = "iter"
    /\ UNCHANGED <<runVars, extVars, connected, globalStop, subscriptions, stopFlag,
                   loopPc, subPc, cancelPc, joinTimedOut,
                   discOverlap, histVars, svcVars, kinVars>>

\* disconnect(), lines 86-87: next entry of the for loop, stop_event.set()
DisconnectSignal ==
    /\ mainPc = "iter"
    /\ discIdx <= Len(subscriptions)
    /\ stopFlag' = [stopFlag EXCEPT ![subscriptions[discIdx]] = TRUE]
    /\ mainPc' = "join"
    /\ UNCHANGED <<runVars, extVars, connected, globalStop, subscriptions, lockHolder,
                   loopPc, subPc, cancelPc, joinTimedOut, discIdx,
                   discOverlap, histVars, svcVars, kinVars>>

\* disconnect(), line 88: thread.join(timeout=1) returns because the thread ended
DisconnectJoinDone ==
    /\ mainPc = "join"
    /\ loopPc[subscriptions[discIdx]] = "dead"
    /\ discIdx' = discIdx + 1
    /\ mainPc' = "iter"
    /\ UNCHANGED <<runVars, extVars, connected, globalStop, subscriptions, lockHolder,
                   stopFlag, loopPc, subPc, cancelPc, joinTimedOut,
                   discOverlap, histVars, svcVars, kinVars>>

\* Variant of DisconnectJoinTimeout: thread.join() without a timeout, which
\* returns only once the thread has ended.
DisconnectJoinWithoutTimeout ==
    /\ mainPc = "join"
    /\ loopPc[subscriptions[discIdx]] = "dead"
    /\ discIdx' = discIdx + 1
    /\ mainPc' = "iter"
    /\ UNCHANGED <<runVars, extVars, connected, globalStop, subscriptions, lockHolder,
                   stopFlag, loopPc, subPc, cancelPc, joinTimedOut,
                   discOverlap, histVars, svcVars, kinVars>>

\* disconnect(), line 88: thread.join(timeout=1) returns because the second
\* passed with the thread still alive
DisconnectJoinTimeout ==
    /\ mainPc = "join"
    /\ loopPc[subscriptions[discIdx]] # "dead"
    /\ discIdx' = discIdx + 1
    /\ mainPc' = "iter"
    /\ UNCHANGED <<runVars, extVars, connected, globalStop, subscriptions, lockHolder,
                   stopFlag, loopPc, subPc, cancelPc, joinTimedOut,
                   discOverlap, histVars, svcVars, kinVars>>

\* disconnect(), line 89 and the end of the with block: clear the list, unlock
DisconnectClear ==
    /\ mainPc = "iter"
    /\ discIdx > Len(subscriptions)
    /\ subscriptions' = <<>>
    /\ lockHolder' = "none"
    /\ mainPc' = "unlocked"
    /\ UNCHANGED <<runVars, extVars, connected, globalStop, stopFlag, loopPc, subPc,
                   cancelPc, joinTimedOut, discIdx, discOverlap, histVars, svcVars, kinVars>>

\* disconnect(), line 90: self._set_connected(False), and return
DisconnectFinish ==
    /\ mainPc = "unlocked"
    /\ connected' = FALSE
    /\ mainPc' = "returned"
    /\ UNCHANGED <<runVars, extVars, globalStop, subscriptions, lockHolder, stopFlag,
                   loopPc, subPc, cancelPc, joinTimedOut, discIdx,
                   discOverlap, histVars, svcVars, kinVars>>

\* Subscriptions are named in the order in which their subscribe calls begin.
NextToSubscribe(s) == subPc[s] = "idle" /\ \A r \in Subs : r < s => subPc[r] # "idle"

\* disconnect() is running (between its first line and its return).
Disconnecting == mainPc \in {"wantlock", "iter", "join", "unlocked"}

\* subscribe_market_data, lines 96-97: not connected, raise ConnectionError
SubscribeRefused(s) ==
    /\ provider = "simulated" /\ task = "realtime"
    /\ NextToSubscribe(s)
    /\ ~connected
    /\ subPc' = [subPc EXCEPT ![s] = "failed"]
    /\ UNCHANGED <<runVars, extVars, connected, globalStop, subscriptions, lockHolder,
                   stopFlag, loopPc, cancelPc, joinTimedOut, mainPc,
                   discIdx, discOverlap, histVars, svcVars, kinVars>>

\* subscribe_market_data, lines 96-123: connected, so create stop_event and
\* start the _stream thread
SubscribeStart(s) ==
    /\ provider = "simulated" /\ task = "realtime"
    /\ NextToSubscribe(s)
    /\ connected
    /\ subPc' = [subPc EXCEPT ![s] = "started"]
    /\ loopPc' = [loopPc EXCEPT ![s] = "check"]
    /\ discOverlap' = (discOverlap \/ Disconnecting)
    /\ UNCHANGED <<runVars, extVars, connected, globalStop, subscriptions, lockHolder,
                   stopFlag, cancelPc, joinTimedOut, mainPc,
                   discIdx, histVars, svcVars, kinVars>>

\* subscribe_market_data, lines 125-136: append under the lock, return cancel
SubscribeAppend(s) ==
    /\ subPc[s] = "started"
    /\ lockHolder = "none"
    /\ subscriptions' = Append(subscriptions, s)
    /\ subPc' = [subPc EXCEPT ![s] = "returned"]
    /\ UNCHANGED <<runVars, extVars, connected, globalStop, lockHolder, stopFlag,
                   loopPc, cancelPc, joinTimedOut, mainPc, discIdx,
                   discOverlap, histVars, svcVars, kinVars>>

\* _stream, line 103: the while condition is false, the thread ends
LoopExit(s) ==
    /\ loopPc[s] = "check"
    /\ (stopFlag[s] \/ globalStop)
    /\ loopPc' = [loopPc EXCEPT ![s] = "dead"]
    /\ UNCHANGED <<runVars, extVars, connected, globalStop, subscriptions, lockHolder,
                   stopFlag, subPc, cancelPc, joinTimedOut, mainPc,
                   discIdx, discOverlap, histVars, svcVars, kinVars>>

\* Variant of LoopGenerate: the while test is inverted, so that ticks are
\* built only once a stop flag is set.
LoopGenerateInverted(s) ==
    /\ loopPc[s] = "check"
    /\ (stopFlag[s] \/ globalStop)
    /\ loopPc' = [loopPc EXCEPT ![s] = "emit"]
    /\ UNCHANGED <<runVars, extVars, connected, globalStop, subscriptions, lockHolder,
                   stopFlag, subPc, cancelPc, joinTimedOut, mainPc,
                   discIdx, discOverlap, histVars, svcVars, kinVars>>

\* _stream, lines 103-115: the while condition is true, build the tick
LoopGenerate(s) ==
    /\ loopPc[s] = "check"
    /\ ~(stopFlag[s] \/ globalStop)
    /\ loopPc' = [loopPc EXCEPT ![s] = "emit"]
    /\ UNCHANGED <<runVars, extVars, connected, globalStop, subscriptions, lockHolder,
                   stopFlag, subPc, cancelPc, joinTimedOut, mainPc,
                   discIdx, discOverlap, histVars, svcVars, kinVars>>

\* _stream, lines 116-120: on_tick(tick) is invoked and returns or raises (the
\* exception is caught and logged), then time.sleep(self._tick_interval)
LoopDeliver(s) ==
    /\ loopPc[s] = "emit"
    /\ loopPc' = [loopPc EXCEPT ![s] = "check"]
    /\ UNCHANGED <<runVars, extVars, connected, globalStop, subscriptions, lockHolder,
                   stopFlag, subPc, cancelPc, joinTimedOut, mainPc, discIdx,
                   discOverlap, histVars, svcVars, kinVars>>

\* cancel(), line 129: stop_event.set()
CancelSet(s) ==
    /\ subPc[s] = "returned"
    /\ cancelPc[s] = "idle"
    /\ stopFlag' = [stopFlag EXCEPT ![s] = TRUE]
    /\ cancelPc' = [cancelPc EXCEPT ![s] = "joining"]
    /\ UNCHANGED <<runVars, extVars, connected, globalStop, subscriptions, lockHolder,
                   loopPc, subPc, joinTimedOut, mainPc, discIdx,
                   discOverlap, histVars, svcVars, kinVars>>

\* Variant of CancelJoined: cancel() without a working join, returning while
\* the thread may still be alive.
CancelJoinedNoWait(s) ==
    /\ cancelPc[s] = "joining"
    /\ lockHolder = "none"
    /\ subscriptions' = Remove(subscriptions, s)
    /\ cancelPc' = [cancelPc EXCEPT ![s] = "returned"]
    /\ UNCHANGED <<runVars, extVars, connected, globalStop, lockHolder, stopFlag,
                   loopPc, subPc, joinTimedOut, mainPc, discIdx,
                   discOverlap, histVars, svcVars, kinVars>>

\* Variant of CancelJoined: the filter of lines 132-134 is inverted, keeping
\* the entry of the cancelled subscription and dropping every other.
CancelJoinedKeepsOwn(s) ==
    /\ cancelPc[s] = "joining"
    /\ loopPc[s] = "dead"
    /\ lockHolder = "none"
    /\ subscriptions' = SelectSeq(subscriptions, LAMBDA x : x = s)
    /\ cancelPc' = [cancelPc EXCEPT ![s] = "returned"]
    /\ UNCHANGED <<runVars, extVars, connected, globalStop, lockHolder, stopFlag,
                   loopPc, subPc, joinTimedOut, mainPc, discIdx,
                   discOverlap, histVars, svcVars, kinVars>>

\* cancel(), lines 130-134: thread.join(timeout=1) returns because the thread
\* ended; drop the entry under the lock, return
CancelJoined(s) ==
    /\ cancelPc[s] = "joining"
    /\ loopPc[s] = "dead"
    /\ lockHolder = "none"
    /\ subscriptions' = Remove(subscriptions, s)
    /\ cancelPc' = [cancelPc EXCEPT ![s] = "returned"]
    /\ UNCHANGED <<runVars, extVars, connected, globalStop, lockHolder, stopFlag,
                   loopPc, subPc, joinTimedOut, mainPc, discIdx,
                   discOverlap, histVars, svcVars, kinVars>>

\* cancel(), lines 130-134: thread.join(timeout=1) returns because the second
\* passed with the thread still alive; drop the entry under the lock, return
CancelJoinTimeout(s) ==
    /\ cancelPc[s] = "joining"
    /\ loopPc[s] # "dead"
    /\ lockHolder = "none"
    /\ subscriptions' = Remove(subscriptions, s)
    /\ cancelPc' = [cancelPc EXCEPT ![s] = "returned"]
    /\ joinTimedOut' = [joinTimedOut EXCEPT ![s] = TRUE]
    /\ UNCHANGED <<runVars, extVars, connected, globalStop, lockHolder, stopFlag,
                   loopPc, subPc, mainPc, discIdx, discOverlap, histVars, svcVars, kinVars>>

\* The caller holds the cancel function of s: subscribe_market_data has
\* returned it, and so has subscribe_realtime_ticks if the service was used.
HoldsCancel(s) == subPc[s] = "returned" /\ mdsPc[s] \in {"idle", "returned"}

\* The first call of the cancel function by the caller that was handed it
\* (cli/main.py line 101, test_market_data_service.py line 20)
CallerCancelSet(s) == HoldsCancel(s) /\ CancelSet(s)

\* cancel() called again after it has returned, line 129: stop_event.set() on
\* the event that is already set
CancelAgainSet(s) ==
    /\ HoldsCancel(s)
    /\ cancelPc[s] = "returned"
    /\ stopFlag' = [stopFlag EXCEPT ![s] = TRUE]
    /\ cancelPc' = [cancelPc EXCEPT ![s] = "joining again"]
    /\ UNCHANGED <<runVars, extVars, connected, globalStop, subscriptions, lockHolder,
                   loopPc, subPc, joinTimedOut, mainPc, discIdx,
                   discOverlap, histVars, svcVars, kinVars>>

\* Variant of CancelAgainReturn: the entry is taken out with list.remove,
\* which raises ValueError when it is no longer in the list.
CancelAgainReturnListRemove(s) ==
    /\ cancelPc[s] = "joining again"
    /\ lockHolder = "none"
    /\ subscriptions' = Remove(subscriptions, s)
    /\ cancelPc' = [cancelPc EXCEPT ![s] =
                       IF \E i \in 1..Len(subscriptions) : subscriptions[i] = s
                       THEN "returned again" ELSE "raised"]
    /\ UNCHANGED <<runVars, extVars, connected, globalStop, lockHolder, stopFlag,
                   loopPc, subPc, joinTimedOut, mainPc, discIdx,
                   discOverlap, histVars, svcVars, kinVars>>

\* cancel() called again, lines 130-134: thread.join(timeout=1) returns, the
\* thread ended or not; the list is rebuilt under the lock without the entry
\* of this subscription, return
CancelAgainReturn(s) ==
    /\ cancelPc[s] = "joining again"
    /\ lockHolder = "none"
    /\ subscriptions' = Remove(subscriptions, s)
    /\ cancelPc' = [cancelPc EXCEPT ![s] = "returned again"]
    /\ UNCHANGED <<runVars, extVars, connected, globalStop, lockHolder, stopFlag,
                   loopPc, subPc, joinTimedOut, mainPc, discIdx,
                   discOverlap, histVars, svcVars, kinVars>>

SimInit ==
    /\ globalStop = FALSE
    /\ subscriptions = <<>>
    /\ lockHolder = "none"
    /\ stopFlag = [s \in Subs |-> FALSE]
    /\ loopPc = [s \in Subs |-> "none"]
    /\ subPc = [s \in Subs |-> "idle"]
    /\ cancelPc = [s \in Subs |-> "idle"]
    /\ joinTimedOut = [s \in Subs |-> FALSE]
    /\ mainPc = "idle"
    /\ discIdx = 1
    /\ discOverlap = FALSE
\* ------------------------------------------- simulated historical data

\* A timeframe string, as the sequence of its characters.
Timeframes == {<<"m">>, <<"1", "m">>, <<"2", "m">>, <<"9", "0", "s">>,
               <<"1", "h">>, <<"1", "D">>}
\* datetime values, in seconds from an origin.
Times == {0, 60, 120, 240}

DigitValue(c) ==
    CASE c = "0" -> 0 [] c = "1" -> 1 [] c = "2" -> 2 [] c = "3" -> 3
      [] c = "4" -> 4 [] c = "5" -> 5 [] c = "6" -> 6 [] c = "7" -> 7
      [] c = "8" -> 8 [] c = "9" -> 9

\* int(text) for a string of decimal digits, with or without a minus sign
RECURSIVE ParseInt(_)
ParseInt(digits) ==
    IF digits = <<>> THEN 0
    ELSE IF Head(digits) = "-" THEN 0 - ParseInt(Tail(digits))
    ELSE 10 * ParseInt(SubSeq(digits, 1, Len(digits) - 1))
         + DigitValue(digits[Len(digits)])

\* Variant of TimeframeToTimedelta: a unit other than m and s counts as hours.
TimeframeToTimedeltaHours(timeframe) ==
    LET unit == timeframe[Len(timeframe)]
        prefix == SubSeq(timeframe, 1, Len(timeframe) - 1)
        value == IF prefix # <<>> THEN ParseInt(prefix) ELSE 1
    IN  CASE unit = "m" -> 60 * value
          [] unit = "s" -> value
          [] OTHER -> 3600 * value

\* _timeframe_to_timedelta, in seconds
TimeframeToTimedelta(timeframe) ==
    LET unit == timeframe[Len(timeframe)]
        prefix == SubSeq(timeframe, 1, Len(timeframe) - 1)
        value == IF prefix # <<>> THEN ParseInt(prefix) ELSE 1
    IN  CASE unit = "m" -> 60 * value
          [] unit = "h" -> 3600 * value
          [] unit = "s" -> value
          [] OTHER -> 60

\* Variant of GenerateBars: the loop runs while current <= end, so that a bar
\* stamped end itself is produced.
RECURSIVE GenerateBarsInclusive(_, _, _, _, _)
GenerateBarsInclusive(instrument, timeframe, current, end, delta) ==
    IF current <= end
    THEN <<[time |-> current, instrument |-> instrument, timeframe |-> timeframe]>>
         \o GenerateBarsInclusive(instrument, timeframe, current + delta, end, delta)
    ELSE <<>>

\* the while loop of request_historical_data, lines 150-171 (delta > 0)
RECURSIVE GenerateBars(_, _, _, _, _)
GenerateBars(instrument, timeframe, current, end, delta) ==
    IF current < end
    THEN <<[time |-> current, instrument |-> instrument, timeframe |-> timeframe]>>
         \o GenerateBars(instrument, timeframe, current + delta, end, delta)
    ELSE <<>>

\* SimulatedNinjaTraderClient.request_historical_data
SimRequestHistorical(instrument, timeframe, start, end) ==
    /\ provider = "simulated" /\ task = "historical"
    /\ MainFree
    /\ histArgs' = [instrument |-> instrument, timeframe |-> timeframe,
                    start |-> start, end |-> end]
    /\ IF ~connected
       THEN /\ histOutcome' = "ConnectionError"
            /\ histBars' = <<>>
       ELSE /\ histOutcome' = "returned"
            /\ histBars' = GenerateBars(instrument, timeframe, start, end,
                                        TimeframeToTimedelta(timeframe))
    /\ UNCHANGED <<runVars, extVars, connected, simVars, svcVars, kinVars,
                   histPc, histCurrent, histDelta>>

\* The same call followed through its while loop, one iteration at a time.
MaxBars == 3        \* iterations of the while loop that are followed

\* Its timeframe arguments: an integer prefix and a unit.
LoopTimeframes == {<<"1", "m">>, <<"2", "m">>, <<"9", "0", "s">>,
                   <<"0", "m">>, <<"-", "1", "m">>}
\* Its start and end arguments, in seconds from an origin.
LoopTimes == {0, 60, 120}

\* request_historical_data, lines 141-151: connected, so delta is computed
\* and current starts at start, with no bar yet
HistLoopBegin(instrument, timeframe, start, end) ==
    /\ provider = "simulated" /\ task = "bars"
    /\ MainFree
    /\ histPc # "looping"
    /\ connected
    /\ histArgs' = [instrument |-> instrument, timeframe |-> timeframe,
                    start |-> start, end |-> end]
    /\ histDelta' = TimeframeToTimedelta(timeframe)
    /\ histCurrent' = start
    /\ histBars' = <<>>
    /\ histOutcome' = "none"
    /\ histPc' = "looping"
    /\ UNCHANGED <<runVars, extVars, connected, simVars, svcVars, kinVars>>

\* request_historical_data, lines 152-170: current < end, so a bar stamped
\* current is appended and current += delta
HistLoopAppend ==
    /\ histPc = "looping"
    /\ histCurrent < histArgs.end
    /\ Len(histBars) < MaxBars
    /\ histBars' = Append(histBars, [time |-> histCurrent,
                                     instrument |-> histArgs.instrument,
                                     timeframe |-> histArgs.timeframe])
    /\ histCurrent' = histCurrent + histDelta
    /\ UNCHANGED <<runVars, extVars, connected, simVars, svcVars, kinVars,
                   histOutcome, histArgs, histPc, histDelta>>

\* request_historical_data, lines 152 and 171: current < end is false, the
\* bars are returned
HistLoopReturn ==
    /\ histPc = "looping"
    /\ ~(histCurrent < histArgs.end)
    /\ histOutcome' = "returned"
    /\ histPc' = "returned"
    /\ UNCHANGED <<runVars, extVars, connected, simVars, svcVars, kinVars,
                   histBars, histArgs, histCurrent, histDelta>>

HistInit ==
    /\ histOutcome = "none"
    /\ histBars = <<>>
    /\ histArgs = [instrument |-> "ES 12-25", timeframe |-> <<"m">>,
                   start |-> 0, end |-> 0]
    /\ histPc = "idle"
    /\ histCurrent = 0
    /\ histDelta = 0

\* ====================================== MarketDataService.ensure_connection

\* ensure_connection, lines 25-27: return at once when connected, else enter
\* the while loop
EnsureBegin ==
    /\ provider = "unreliable"
    /\ MainFree
    /\ svcEntryConnected' = connected
    /\ connectCalls' = 0
    /\ connectFails' = 0
    /\ IF connected
       THEN svcPc' = "returned" /\ svcOutcome' = "ok"
       ELSE svcPc' = "loop" /\ svcOutcome' = "none"
    /\ UNCHANGED <<runVars, extVars, connected, simVars, histVars, kinVars>>

\* ensure_connection, lines 28-30 and 34-35: connect() returns, break
EnsureConnectOk ==
    /\ svcPc = "loop"
    /\ connected' = TRUE
    /\ connectCalls' = connectCalls + 1
    /\ svcPc' = "returned"
    /\ svcOutcome' = "ok"
    /\ UNCHANGED <<runVars, extVars, simVars, histVars, svcEntryConnected, connectFails,
                   kinVars>>

\* Variant of EnsureConnectFail: the ConnectionError is not caught and leaves
\* ensure_connection.
EnsureConnectFailPropagates ==
    /\ svcPc = "loop"
    /\ provider = "unreliable"
    /\ connectFails < MaxFail
    /\ connectCalls' = connectCalls + 1
    /\ connectFails' = connectFails + 1
    /\ svcPc' = "returned"
    /\ svcOutcome' = "ConnectionError"
    /\ UNCHANGED <<runVars, extVars, connected, simVars, histVars, svcEntryConnected,
                   kinVars>>

\* ensure_connection, lines 28-33: connect() raises ConnectionError, which is
\* caught and logged; time.sleep(self._reconnect_delay) starts
EnsureConnectFail ==
    /\ svcPc = "loop"
    /\ provider = "unreliable"
    /\ connectFails < MaxFail
    /\ connectCalls' = connectCalls + 1
    /\ connectFails' = connectFails + 1
    /\ svcPc' = "backoff"
    /\ UNCHANGED <<runVars, extVars, connected, simVars, histVars, svcOutcome,
                   svcEntryConnected, kinVars>>

\* Variant of EnsureRetry: a retry cap of one attempt, after which
\* ensure_connection returns without a connection.
EnsureRetryGivesUp ==
    /\ svcPc = "backoff"
    /\ svcPc' = "returned"
    /\ svcOutcome' = "ok"
    /\ UNCHANGED <<runVars, extVars, connected, simVars, histVars, svcEntryConnected,
                   connectCalls, connectFails, kinVars>>

\* ensure_connection, lines 33 and 27: the sleep ends, the while condition is
\* evaluated again
EnsureRetry ==
    /\ svcPc = "backoff"
    /\ IF connected
       THEN svcPc' = "returned" /\ svcOutcome' = "ok"
       ELSE svcPc' = "loop" /\ svcOutcome' = svcOutcome
    /\ UNCHANGED <<runVars, extVars, connected, simVars, histVars, svcEntryConnected,
                   connectCalls, connectFails, kinVars>>

\* ensure_connection has returned; the control thread goes on
EnsureReturn ==
    /\ svcPc = "returned"
    /\ svcPc' = "idle"
    /\ UNCHANGED <<runVars, extVars, connected, simVars, histVars, svcOutcome,
                   svcEntryConnected, connectCalls, connectFails, kinVars>>

\* disconnect() of a client without subscriptions (KinetickEODClient.disconnect,
\* lines 215-216): _set_connected(False)
PlainDisconnect ==
    /\ provider # "simulated"
    /\ MainFree
    /\ connected
    /\ connected' = FALSE
    /\ UNCHANGED <<runVars, extVars, simVars, histVars, svcVars, kinVars>>

SvcInit ==
    /\ svcPc = "idle"
    /\ svcOutcome = "none"
    /\ svcEntryConnected = FALSE
    /\ connectCalls = 0
    /\ connectFails = 0

\* ======================================================= KinetickEODClient

Ids == 1..MaxRequests
\* (instrument, timeframe) arguments of the requests made
KinetickRequests == {<<"ES 12-25", "1d">>, <<"NQ 12-25", "5m">>}

\* The Date/date column and the Close column of an export row, as written.
ExportRows == {[date |-> "2024-01-02", close |-> "7.5"],
               [date |-> "2024-01-03", close |-> ""],
               [date |-> "", close |-> "7.5"],
               [date |-> "bogus", close |-> "7.5"]}

RECURSIVE SeqsUpTo(_, _)
SeqsUpTo(S, n) ==
    IF n = 0 THEN {<<>>}
    ELSE LET shorter == SeqsUpTo(S, n - 1)
         IN  shorter \cup {Append(q, x) : q \in {r \in shorter : Len(r) = n - 1}, x \in S}

ExportContents == SeqsUpTo(ExportRows, MaxRows)

\* datetime.fromisoformat / strptime("%Y-%m-%d"): a day count, or ValueError
DateParses(text) == text \in {"2024-01-02", "2024-01-03"}
ParseDate(text) == IF text = "2024-01-02" THEN 19724 ELSE 19725
\* float(row.get("Close", 0.0) or 0.0), in tenths
ParseNumber(text) == IF text = "" THEN 0 ELSE 75

\* Variant of ParseRows: a row without a date ends the loop (break for
\* continue), losing the rows after it.
RECURSIVE ParseRowsStopAtBlank(_, _)
ParseRowsStopAtBlank(rows, instrument) ==
    IF rows = <<>> THEN [error |-> FALSE, bars |-> <<>>]
    ELSE LET row == Head(rows)
             rest == ParseRowsStopAtBlank(Tail(rows), instrument)
         IN  IF row.date = "" THEN [error |-> FALSE, bars |-> <<>>]
             ELSE IF ~DateParses(row.date) THEN [error |-> TRUE, bars |-> <<>>]
             ELSE IF rest.error THEN rest
             ELSE [error |-> FALSE,
                   bars |-> <<[time |-> ParseDate(row.date),
                               close |-> ParseNumber(row.close),
                               instrument |-> instrument,
                               timeframe |-> "1D"]>> \o rest.bars]

\* Variant of ParseRows: no test for a missing date, so that an empty date
\* reaches fromisoformat and raises ValueError.
RECURSIVE ParseRowsBlankRaises(_, _)
ParseRowsBlankRaises(rows, instrument) ==
    IF rows = <<>> THEN [error |-> FALSE, bars |-> <<>>]
    ELSE LET row == Head(rows)
             rest == ParseRowsBlankRaises(Tail(rows), instrument)
         IN  IF ~DateParses(row.date) THEN [error |-> TRUE, bars |-> <<>>]
             ELSE IF rest.error THEN rest
             ELSE [error |-> FALSE,
                   bars |-> <<[time |-> ParseDate(row.date),
                               close |-> ParseNumber(row.close),
                               instrument |-> instrument,
                               timeframe |-> "1D"]>> \o rest.bars]

\* _parse_export, lines 270-289: rows without a date are skipped, a date that
\* does not parse raises ValueError, every other row becomes a bar tagged "1D"
RECURSIVE ParseRows(_, _)
ParseRows(rows, instrument) ==
    IF rows = <<>> THEN [error |-> FALSE, bars |-> <<>>]
    ELSE LET row == Head(rows)
             rest == ParseRows(Tail(rows), instrument)
         IN  IF row.date = "" THEN rest
             ELSE IF ~DateParses(row.date) THEN [error |-> TRUE, bars |-> <<>>]
             ELSE IF rest.error THEN rest
             ELSE [error |-> FALSE,
                   bars |-> <<[time |-> ParseDate(row.date),
                               close |-> ParseNumber(row.close),
                               instrument |-> instrument,
                               timeframe |-> "1D"]>> \o rest.bars]

\* KinetickEODClient.connect: make the directories, _set_connected(True)
KinetickConnect ==
    /\ provider = "kinetick"
    /\ MainFree
    /\ connected' = TRUE
    /\ UNCHANGED <<runVars, extVars, simVars, histVars, svcVars, kinVars>>

\* Variant of KinetickRequestRefused: no is_connected test, the command file
\* is written although the client is not connected.
KinetickRequestUnchecked(instrument, timeframe) ==
    /\ provider = "kinetick"
    /\ MainFree
    /\ ~connected
    /\ nextId <= MaxRequests
    /\ reqId' = nextId
    /\ nextId' = nextId + 1
    /\ cmdFiles' = cmdFiles \cup {nextId}
    /\ reqInstrument' = instrument
    /\ reqTimeframe' = timeframe
    /\ reqElapsed' = 0
    /\ reqPc' = "polling"
    /\ reqOutcome' = "none"
    /\ reqBars' = <<>>
    /\ exportRows' = <<>>
    /\ UNCHANGED <<runVars, extVars, connected, simVars, histVars, svcVars,
                   exportTimeout, exportFiles, agentWritten>>

\* request_historical_data, lines 228-229: not connected, raise ConnectionError
KinetickRequestRefused(instrument, timeframe) ==
    /\ provider = "kinetick"
    /\ MainFree
    /\ ~connected
    /\ reqPc' = "done"
    /\ reqOutcome' = "ConnectionError"
    /\ reqBars' = <<>>
    /\ UNCHANGED <<runVars, extVars, connected, simVars, histVars, svcVars,
                   exportTimeout, cmdFiles, exportFiles, exportRows,
                   agentWritten, nextId, reqId, reqInstrument, reqTimeframe,
                   reqElapsed>>

\* request_historical_data, lines 230-245 and 254: new command id, write the
\* command file, take start_time
KinetickRequestWrite(instrument, timeframe) ==
    /\ provider = "kinetick"
    /\ MainFree
    /\ connected
    /\ nextId <= MaxRequests
    /\ reqId' = nextId
    /\ nextId' = nextId + 1
    /\ cmdFiles' = cmdFiles \cup {nextId}
    /\ reqInstrument' = instrument
    /\ reqTimeframe' = timeframe
    /\ reqElapsed' = 0
    /\ reqPc' = "polling"
    /\ reqOutcome' = "none"
    /\ reqBars' = <<>>
    /\ exportRows' = <<>>
    /\ UNCHANGED <<runVars, extVars, connected, simVars, histVars, svcVars,
                   exportTimeout, exportFiles, agentWritten>>

\* Variant of KinetickPollTimeout: TimeoutError leaves request_historical_data
\* without the cleanup of the command file.
KinetickPollTimeoutNoCleanup ==
    /\ reqPc = "polling"
    /\ ~(reqElapsed < exportTimeout)
    /\ reqOutcome' = "TimeoutError"
    /\ reqPc' = "done"
    /\ UNCHANGED <<runVars, extVars, connected, simVars, histVars, svcVars,
                   exportTimeout, cmdFiles, exportFiles, exportRows,
                   agentWritten, nextId, reqId, reqInstrument, reqTimeframe,
                   reqElapsed, reqBars>>

\* _wait_for_export, lines 255 and 262-264, then the finally of lines 248-250:
\* the deadline has passed, raise TimeoutError, unlink the command file
KinetickPollTimeout ==
    /\ reqPc = "polling"
    /\ ~(reqElapsed < exportTimeout)
    /\ reqOutcome' = "TimeoutError"
    /\ cmdFiles' = cmdFiles \ {reqId}
    /\ reqPc' = "done"
    /\ UNCHANGED <<runVars, extVars, connected, simVars, histVars, svcVars,
                   exportTimeout, exportFiles, exportRows, agentWritten, nextId,
                   reqId, reqInstrument, reqTimeframe, reqElapsed, reqBars>>

\* Variant of KinetickPollFound: the command file is unlinked after
\* _wait_for_export returns instead of in a finally block, so an error raised
\* by the parser skips it.
KinetickPollFoundNoFinally ==
    /\ reqPc = "polling"
    /\ reqElapsed < exportTimeout
    /\ reqId \in exportFiles
    /\ LET parsed == ParseRows(exportRows, reqInstrument)
       IN  IF parsed.error
           THEN /\ reqOutcome' = "ValueError"
                /\ reqBars' = <<>>
                /\ UNCHANGED <<exportFiles, exportRows, cmdFiles>>
           ELSE /\ reqOutcome' = "returned"
                /\ reqBars' = parsed.bars
                /\ exportFiles' = exportFiles \ {reqId}
                /\ exportRows' = exportRows
                /\ cmdFiles' = cmdFiles \ {reqId}
    /\ reqPc' = "done"
    /\ UNCHANGED <<runVars, extVars, connected, simVars, histVars, svcVars,
                   exportTimeout, agentWritten, nextId, reqId, reqInstrument,
                   reqTimeframe, reqElapsed>>

\* _wait_for_export, lines 255-260, then the finally of lines 248-250: the
\* export file exists; parse it, unlink it unless parsing raised, unlink the
\* command file
KinetickPollFound ==
    /\ reqPc = "polling"
    /\ reqElapsed < exportTimeout
    /\ reqId \in exportFiles
    /\ LET parsed == ParseRows(exportRows, reqInstrument)
       IN  IF parsed.error
           THEN /\ reqOutcome' = "ValueError"
                /\ reqBars' = <<>>
                /\ UNCHANGED <<exportFiles, exportRows>>
           ELSE /\ reqOutcome' = "returned"
                /\ reqBars' = parsed.bars
                /\ exportFiles' = exportFiles \ {reqId}
                /\ exportRows' = exportRows
    /\ cmdFiles' = cmdFiles \ {reqId}
    /\ reqPc' = "done"
    /\ UNCHANGED <<runVars, extVars, connected, simVars, histVars, svcVars,
                   exportTimeout, agentWritten, nextId, reqId, reqInstrument,
                   reqTimeframe, reqElapsed>>

\* _wait_for_export, lines 255-256 and 261: no export file yet, sleep one
\* poll interval
KinetickPollSleep ==
    /\ reqPc = "polling"
    /\ reqElapsed < exportTimeout
    /\ reqId \notin exportFiles
    /\ reqElapsed' = reqElapsed + 1
    /\ UNCHANGED <<runVars, extVars, connected, simVars, histVars, svcVars,
                   exportTimeout, cmdFiles, exportFiles, exportRows,
                   agentWritten, nextId,
                   reqPc, reqId, reqInstrument, reqTimeframe, reqOutcome,
                   reqBars>>

\* The NinjaTrader AddOn answers a command it has read: it writes <id>.csv,
\* at any moment after the command was issued. The rows are kept for the file
\* of the latest request only: no other export file is ever opened again
\* (line 234: the path is made from the request's own uuid4).
AgentWriteExport(id, rows) ==
    /\ provider = "kinetick"
    /\ id < nextId
    /\ id \notin agentWritten
    /\ id # reqId => rows = <<>>
    /\ exportFiles' = exportFiles \cup {id}
    /\ exportRows' = IF id = reqId THEN rows ELSE exportRows
    /\ agentWritten' = agentWritten \cup {id}
    /\ UNCHANGED <<runVars, extVars, connected, simVars, histVars, svcVars,
                   exportTimeout, cmdFiles, nextId, reqPc, reqId, reqInstrument,
                   reqTimeframe, reqElapsed, reqOutcome, reqBars>>

KinInit ==
    /\ exportTimeout \in (IF provider = "kinetick" THEN 0..MaxTimeout ELSE {0})
    /\ cmdFiles = {}
    /\ exportFiles = {}
    /\ exportRows = <<>>
    /\ agentWritten = {}
    /\ nextId = 1
    /\ reqPc = "idle"
    /\ reqId = 0
    /\ reqInstrument = "ES 12-25"
    /\ reqTimeframe = "1d"
    /\ reqElapsed = 0
    /\ reqOutcome = "none"
    /\ reqBars = <<>>

\* ==================================================== HistoricalDataService

\* The clients a HistoricalDataService is built over here: the simulated one,
\* and the same behind a connect() that may raise ConnectionError.
HistoricalProviders == {"simulated", "unreliable"}

\* get_historical_bars, line 23: the is_connected test
HdsBegin(instrument, timeframe, start, end) ==
    /\ provider \in HistoricalProviders /\ task = "service"
    /\ MainFree
    /\ hdsArgs' = [instrument |-> instrument, timeframe |-> timeframe,
                   start |-> start, end |-> end]
    /\ hdsEntryConnected' = connected
    /\ hdsConnectCalls' = 0
    /\ hdsRequestCalls' = 0
    /\ hdsOutcome' = "none"
    /\ hdsBars' = <<>>
    /\ hdsPc' = IF connected THEN "request" ELSE "connect"
    /\ UNCHANGED <<runVars, ordVars, stoVars, connected, simVars, histVars, svcVars, kinVars,
                   mdsVars>>

\* get_historical_bars, lines 24-25: connect() returns
HdsConnectOk ==
    /\ hdsPc = "connect"
    /\ connected' = TRUE
    /\ hdsConnectCalls' = hdsConnectCalls + 1
    /\ hdsPc' = "request"
    /\ UNCHANGED <<runVars, ordVars, stoVars, simVars, histVars, svcVars, kinVars, mdsVars,
                   hdsArgs, hdsEntryConnected, hdsRequestCalls, hdsOutcome,
                   hdsBars>>

\* Variant of HdsConnectFail: the ConnectionError is caught and connect() is
\* tried again, as ensure_connection does.
HdsConnectFailRetries ==
    /\ hdsPc = "connect"
    /\ provider = "unreliable"
    /\ hdsConnectCalls < MaxFail
    /\ hdsConnectCalls' = hdsConnectCalls + 1
    /\ UNCHANGED <<runVars, ordVars, stoVars, connected, simVars, histVars, svcVars, kinVars,
                   mdsVars, hdsPc, hdsArgs, hdsEntryConnected,
                   hdsRequestCalls, hdsOutcome, hdsBars>>

\* get_historical_bars, lines 24-28: connect() raises ConnectionError, which
\* is logged and raised again
HdsConnectFail ==
    /\ hdsPc = "connect"
    /\ provider = "unreliable"
    /\ hdsConnectCalls' = hdsConnectCalls + 1
    /\ hdsOutcome' = "ConnectionError"
    /\ hdsPc' = "done"
    /\ UNCHANGED <<runVars, ordVars, stoVars, connected, simVars, histVars, svcVars, kinVars,
                   mdsVars, hdsArgs, hdsEntryConnected, hdsRequestCalls,
                   hdsBars>>

\* get_historical_bars, line 36: request_historical_data is called with the
\* arguments received (lines 138-171) and its result returned
HdsRequest ==
    /\ hdsPc = "request"
    /\ hdsRequestCalls' = hdsRequestCalls + 1
    /\ IF ~connected
       THEN /\ hdsOutcome' = "ConnectionError"
            /\ hdsBars' = <<>>
       ELSE /\ hdsOutcome' = "returned"
            /\ hdsBars' = GenerateBars(hdsArgs.instrument, hdsArgs.timeframe,
                                       hdsArgs.start, hdsArgs.end,
                                       TimeframeToTimedelta(hdsArgs.timeframe))
    /\ hdsPc' = "done"
    /\ UNCHANGED <<runVars, ordVars, stoVars, connected, simVars, histVars, svcVars, kinVars,
                   mdsVars, hdsArgs, hdsEntryConnected, hdsConnectCalls>>

\* disconnect() of a client without subscriptions, between two calls
\* (SimulatedNinjaTraderClient.disconnect with an empty list: lines 84-90)
HistoricalDisconnect ==
    /\ provider \in HistoricalProviders /\ task \in {"historical", "service"}
    /\ MainFree
    /\ connected
    /\ connected' = FALSE
    /\ globalStop' = TRUE
    /\ UNCHANGED <<runVars, extVars, subscriptions, lockHolder, stopFlag,
                   loopPc, subPc, cancelPc, joinTimedOut, mainPc, discIdx,
                   discOverlap, histVars, svcVars, kinVars>>

HdsInit ==
    /\ hdsPc = "idle"
    /\ hdsArgs = [instrument |-> "ES 12-25", timeframe |-> <<"m">>,
                  start |-> 0, end |-> 0]
    /\ hdsEntryConnected = FALSE
    /\ hdsConnectCalls = 0
    /\ hdsRequestCalls = 0
    /\ hdsOutcome = "none"
    /\ hdsBars = <<>>

\* ======================================================== MarketDataService

\* NinjaTraderClient.supports_realtime (lines 57-60), overridden by
\* KinetickEODClient (lines 203-205)
SupportsRealtime == provider # "kinetick"

\* Subscribe calls are named in the order in which they begin, whether they
\* are made on the connector or through the service.
NextCall(s) ==
    /\ subPc[s] = "idle" /\ mdsPc[s] = "idle"
    /\ \A r \in Subs : r < s => (subPc[r] # "idle" \/ mdsPc[r] # "idle")

\* The thread that calls the service is between service calls.
ServiceCallerFree ==
    /\ \A s \in Subs : mdsPc[s] # "ensured"
    /\ stopPc = "idle"

\* Variant of KinetickSubscribe: the connection is tested first, as in the
\* simulated client, so that a disconnected client raises ConnectionError.
KinetickSubscribeChecksConnection(s) ==
    /\ provider = "kinetick"
    /\ NextCall(s)
    /\ subPc' = [subPc EXCEPT ![s] = IF connected THEN "unsupported" ELSE "failed"]
    /\ UNCHANGED <<runVars, extVars, connected, globalStop, subscriptions,
                   lockHolder, stopFlag, loopPc, cancelPc, joinTimedOut, mainPc,
                   discIdx, discOverlap, histVars, svcVars, kinVars>>

\* KinetickEODClient.subscribe_market_data, lines 218-223: raise
\* NotImplementedError
KinetickSubscribe(s) ==
    /\ provider = "kinetick"
    /\ NextCall(s)
    /\ subPc' = [subPc EXCEPT ![s] = "unsupported"]
    /\ UNCHANGED <<runVars, extVars, connected, globalStop, subscriptions,
                   lockHolder, stopFlag, loopPc, cancelPc, joinTimedOut, mainPc,
                   discIdx, discOverlap, histVars, svcVars, kinVars>>

\* Variant of MdsSubscribeUnsupported: ensure_connection() is called before
\* the capability test, so the client is connected when the error is raised.
MdsSubscribeUnsupportedAfterEnsure(s) ==
    /\ ~SupportsRealtime
    /\ NextCall(s)
    /\ ServiceCallerFree
    /\ connected' = TRUE
    /\ mdsPc' = [mdsPc EXCEPT ![s] = "unsupported"]
    /\ UNCHANGED <<runVars, ordVars, hdsVars, stoVars, simVars, histVars, svcVars, kinVars,
                   mdsSubscriptions, mdsLock, stopPc, stopIdx, stopCaller,
                   cancelCalls, cancelRaised, cbInstrument, cbLog>>

\* subscribe_realtime_ticks, lines 42-45: the client does not support
\* realtime, raise NotImplementedError
MdsSubscribeUnsupported(s) ==
    /\ ~SupportsRealtime
    /\ NextCall(s)
    /\ ServiceCallerFree
    /\ mdsPc' = [mdsPc EXCEPT ![s] = "unsupported"]
    /\ UNCHANGED <<runVars, ordVars, hdsVars, stoVars, connected, simVars, histVars, svcVars, kinVars,
                   mdsSubscriptions, mdsLock, stopPc, stopIdx, stopCaller,
                   cancelCalls, cancelRaised, cbInstrument, cbLog>>

\* subscribe_realtime_ticks, lines 42-46: the client supports realtime;
\* ensure_connection() returns at once when connected and after connect()
\* otherwise (SimulatedNinjaTraderClient.connect does not raise)
MdsSubscribeBegin(s) ==
    /\ provider = "simulated" /\ task = "realtime"
    /\ SupportsRealtime
    /\ NextCall(s)
    /\ ServiceCallerFree
    /\ connected' = TRUE
    /\ mdsPc' = [mdsPc EXCEPT ![s] = "ensured"]
    /\ UNCHANGED <<runVars, ordVars, hdsVars, stoVars, simVars, histVars, svcVars, kinVars,
                   mdsSubscriptions, mdsLock, stopPc, stopIdx, stopCaller,
                   cancelCalls, cancelRaised, cbInstrument, cbLog>>

\* subscribe_realtime_ticks, line 54: self._client.subscribe_market_data with
\* the wrapper _on_tick, which passes the connection test and starts the thread
MdsDelegateStart(s) == mdsPc[s] = "ensured" /\ SubscribeStart(s)

\* subscribe_realtime_ticks, line 54: the connector was disconnected by
\* another thread after ensure_connection returned; subscribe_market_data
\* raises ConnectionError (lines 96-97), which leaves subscribe_realtime_ticks
MdsDelegateRefused(s) ==
    /\ mdsPc[s] = "ensured"
    /\ subPc[s] = "idle"
    /\ ~connected
    /\ subPc' = [subPc EXCEPT ![s] = "failed"]
    /\ mdsPc' = [mdsPc EXCEPT ![s] = "failed"]
    /\ UNCHANGED <<runVars, ordVars, hdsVars, stoVars, connected, globalStop,
                   subscriptions, lockHolder, stopFlag, loopPc, cancelPc,
                   joinTimedOut, mainPc, discIdx, discOverlap, histVars,
                   svcVars, kinVars, mdsSubscriptions, mdsLock, stopPc, stopIdx,
                   stopCaller, cancelCalls, cancelRaised, cbInstrument, cbLog>>

\* subscribe_market_data called on the connector itself, not through the service
DirectSubscribeStart(s) == NextCall(s) /\ SubscribeStart(s)

\* subscribe_realtime_ticks, lines 55-57: record the cancel function under the
\* service lock, return it
MdsRecord(s) ==
    /\ mdsPc[s] = "ensured"
    /\ subPc[s] = "returned"
    /\ mdsLock = "none"
    /\ mdsSubscriptions' = Append(mdsSubscriptions, s)
    /\ mdsPc' = [mdsPc EXCEPT ![s] = "returned"]
    /\ UNCHANGED <<runVars, ordVars, hdsVars, stoVars, connected, simVars, histVars, svcVars, kinVars,
                   mdsLock, stopPc, stopIdx, stopCaller, cancelCalls,
                   cancelRaised, cbInstrument, cbLog>>

\* stop_all is running on the thread of subscription s, called by its callback.
InStopAll(s) == stopPc \in {"iter", "join"} /\ stopCaller = s

\* The instrument each subscribe call asks for.
SubInstrument(s) == IF s % 2 = 1 THEN "ES 12-25" ELSE "NQ 12-25"

\* Variant of OnTick: the tick is built with an instrument other than the
\* one subscribed to.
OnTickOtherInstrument(s, raises) ==
    /\ loopPc[s] = "emit"
    /\ ~InStopAll(s)
    /\ loopPc' = [loopPc EXCEPT ![s] = "check"]
    /\ cbInstrument' = [cbInstrument EXCEPT ![s] = SubInstrument(s + 1)]
    /\ cbLog' = [cbLog EXCEPT ![s] =
                    IF raises THEN "raised"
                    ELSE IF @ \in {"raised", "recovered"} THEN "recovered"
                    ELSE "returned"]
    /\ UNCHANGED <<runVars, ordVars, hdsVars, stoVars, connected, globalStop, subscriptions, lockHolder,
                   stopFlag, subPc, cancelPc, joinTimedOut, mainPc, discIdx,
                   discOverlap, histVars, svcVars, kinVars, mdsPc,
                   mdsSubscriptions, mdsLock, stopPc, stopIdx, stopCaller,
                   cancelCalls, cancelRaised>>

\* Variant of OnTick: the exception of a callback is not caught, and ends the
\* thread of its subscription.
OnTickRaiseEndsLoop(s, raises) ==
    /\ loopPc[s] = "emit"
    /\ ~InStopAll(s)
    /\ loopPc' = [loopPc EXCEPT ![s] = IF raises THEN "dead" ELSE "check"]
    /\ cbInstrument' = [cbInstrument EXCEPT ![s] = SubInstrument(s)]
    /\ cbLog' = [cbLog EXCEPT ![s] =
                    IF raises THEN "raised"
                    ELSE IF @ \in {"raised", "recovered"} THEN "recovered"
                    ELSE "returned"]
    /\ UNCHANGED <<runVars, ordVars, hdsVars, stoVars, connected, globalStop, subscriptions, lockHolder,
                   stopFlag, subPc, cancelPc, joinTimedOut, mainPc, discIdx,
                   discOverlap, histVars, svcVars, kinVars, mdsPc,
                   mdsSubscriptions, mdsLock, stopPc, stopIdx, stopCaller,
                   cancelCalls, cancelRaised>>

\* _stream, lines 108-120: the tick built with the instrument subscribed to
\* is passed to on_tick, which returns or raises, then the sleep.
\* on_tick is the caller's callback, whose exception is caught at line 118,
\* or the service's _on_tick around it (market_data_service.py, lines 48-52),
\* which catches the exception itself at line 51.
OnTick(s, raises) ==
    /\ loopPc[s] = "emit"
    /\ ~InStopAll(s)
    /\ loopPc' = [loopPc EXCEPT ![s] = "check"]
    /\ cbInstrument' = [cbInstrument EXCEPT ![s] = SubInstrument(s)]
    /\ cbLog' = [cbLog EXCEPT ![s] =
                    IF raises THEN "raised"
                    ELSE IF @ \in {"raised", "recovered"} THEN "recovered"
                    ELSE "returned"]
    /\ UNCHANGED <<runVars, ordVars, hdsVars, stoVars, connected, globalStop, subscriptions, lockHolder,
                   stopFlag, subPc, cancelPc, joinTimedOut, mainPc, discIdx,
                   discOverlap, histVars, svcVars, kinVars, mdsPc,
                   mdsSubscriptions, mdsLock, stopPc, stopIdx, stopCaller,
                   cancelCalls, cancelRaised>>

\* The threads that call stop_all: the caller of the service (0), or a
\* callback on the thread of its subscription.
StopCallers == 0..MaxSubs

\* stop_all, line 60: with self._lock
StopAllBegin(c) ==
    /\ provider = "simulated"
    /\ stopPc = "idle"
    /\ IF c = 0 THEN ServiceCallerFree ELSE loopPc[c] = "emit"
    /\ mdsLock = "none"
    /\ mdsLock' = "stop_all"
    /\ stopCaller' = c
    /\ stopIdx' = 1
    /\ stopPc' = "iter"
    /\ cancelCalls' = [s \in Subs |-> 0]
    /\ cancelRaised' = {}
    /\ UNCHANGED <<runVars, ordVars, hdsVars, stoVars, connected, simVars, histVars, svcVars, kinVars,
                   mdsPc, mdsSubscriptions, cbInstrument, cbLog>>

\* stop_all, lines 61-63, and cancel(), line 129: the next cancel function is
\* invoked and sets its stop_event
StopAllCancelSet ==
    /\ stopPc = "iter"
    /\ stopIdx <= Len(mdsSubscriptions)
    /\ stopFlag' = [stopFlag EXCEPT ![mdsSubscriptions[stopIdx]] = TRUE]
    /\ cancelCalls' = [cancelCalls EXCEPT ![mdsSubscriptions[stopIdx]] = @ + 1]
    /\ stopPc' = "join"
    /\ UNCHANGED <<runVars, ordVars, hdsVars, stoVars, connected, globalStop, subscriptions, lockHolder,
                   loopPc, subPc, cancelPc, joinTimedOut, mainPc, discIdx,
                   discOverlap, histVars, svcVars, kinVars, mdsPc,
                   mdsSubscriptions, mdsLock, stopIdx, stopCaller,
                   cancelRaised, cbInstrument, cbLog>>

\* Variant of StopAllCancelRaises: the exception of a cancel function is not
\* caught, so it leaves stop_all (releasing the lock) with the rest of the
\* list neither cancelled nor cleared.
StopAllCancelPropagates ==
    /\ stopPc = "join"
    /\ mdsSubscriptions[stopIdx] = stopCaller
    /\ cancelRaised' = cancelRaised \cup {mdsSubscriptions[stopIdx]}
    /\ mdsLock' = "none"
    /\ stopPc' = "idle"
    /\ UNCHANGED <<runVars, ordVars, hdsVars, stoVars, connected, simVars, histVars, svcVars, kinVars,
                   mdsPc, mdsSubscriptions, stopIdx, stopCaller, cancelCalls,
                   cbInstrument, cbLog>>

\* cancel(), line 130, and stop_all, lines 64-65: thread.join raises
\* RuntimeError because the thread to join is the one running stop_all; the
\* exception leaves cancel() before its filter and is caught and logged
StopAllCancelRaises ==
    /\ stopPc = "join"
    /\ mdsSubscriptions[stopIdx] = stopCaller
    /\ cancelRaised' = cancelRaised \cup {mdsSubscriptions[stopIdx]}
    /\ stopIdx' = stopIdx + 1
    /\ stopPc' = "iter"
    /\ UNCHANGED <<runVars, ordVars, hdsVars, stoVars, connected, simVars, histVars, svcVars, kinVars,
                   mdsPc, mdsSubscriptions, mdsLock, stopCaller, cancelCalls,
                   cbInstrument, cbLog>>

\* cancel(), lines 130-134: thread.join(timeout=1) returns, the thread ended
\* or not; drop the entry under the connector's lock, return to stop_all
StopAllCancelReturn ==
    /\ stopPc = "join"
    /\ mdsSubscriptions[stopIdx] # stopCaller
    /\ lockHolder = "none"
    /\ subscriptions' = Remove(subscriptions, mdsSubscriptions[stopIdx])
    /\ stopIdx' = stopIdx + 1
    /\ stopPc' = "iter"
    /\ UNCHANGED <<runVars, ordVars, hdsVars, stoVars, connected, globalStop, lockHolder, stopFlag,
                   loopPc, subPc, cancelPc, joinTimedOut, mainPc, discIdx,
                   discOverlap, histVars, svcVars, kinVars, mdsPc,
                   mdsSubscriptions, mdsLock, stopCaller, cancelCalls,
                   cancelRaised, cbInstrument, cbLog>>

\* stop_all, line 66 and the end of the with block: clear the list, unlock,
\* return (the record kept of this stop_all ends with it)
StopAllClear ==
    /\ stopPc = "iter"
    /\ stopIdx > Len(mdsSubscriptions)
    /\ mdsSubscriptions' = <<>>
    /\ mdsLock' = "none"
    /\ stopPc' = "idle"
    /\ stopIdx' = 1
    /\ stopCaller' = 0
    /\ cancelCalls' = [s \in Subs |-> 0]
    /\ cancelRaised' = {}
    /\ UNCHANGED <<runVars, ordVars, hdsVars, stoVars, connected, simVars, histVars, svcVars, kinVars,
                   mdsPc, cbInstrument, cbLog>>

MdsInit ==
    /\ mdsPc = [s \in Subs |-> "idle"]
    /\ mdsSubscriptions = <<>>
    /\ mdsLock = "none"
    /\ stopPc = "idle"
    /\ stopIdx = 1
    /\ stopCaller = 0
    /\ cancelCalls = [s \in Subs |-> 0]
    /\ cancelRaised = {}
    /\ cbInstrument = [s \in Subs |-> "none"]
    /\ cbLog = [s \in Subs |-> "none"]

\* ===================================================== SQLiteStorageBackend

MaxStored == 2      \* rows a table holds at most, and records of one batch

\* datetime values of one minute: 09 s, 09.5 s and 10 s past it. micro is the
\* first digit of the microseconds, the other five being 0.
StoreTimes == {[sec |-> 9, micro |-> 0], [sec |-> 9, micro |-> 5],
               [sec |-> 10, micro |-> 0]}

\* An optional argument or field: <<>> for None, <<v>> for the value v.
Optional(S) == {<<>>} \cup {<<v>> : v \in S}

\* The TickData handed to save_ticks (time, instrument, and of the optional
\* fields bid and last). A float is kept as written: "nan" is float("nan").
StoreTicks ==
    {[instrument |-> "ES", time |-> [sec |-> 9, micro |-> 0],
      bid |-> <<"1.0">>, last |-> <<"1.25">>],
     [instrument |-> "ES", time |-> [sec |-> 10, micro |-> 0],
      bid |-> <<>>, last |-> <<>>],
     [instrument |-> "NQ", time |-> [sec |-> 9, micro |-> 5],
      bid |-> <<"1.0">>, last |-> <<"nan">>],
     [instrument |-> "NQ", time |-> [sec |-> 10, micro |-> 0],
      bid |-> <<>>, last |-> <<"1.25">>]}

\* The BarData handed to save_bars (time, instrument, timeframe, close).
StoreBars ==
    {[instrument |-> "ES", timeframe |-> "5m",
      time |-> [sec |-> 9, micro |-> 0], close |-> "1.0"],
     [instrument |-> "ES", timeframe |-> "1D",
      time |-> [sec |-> 10, micro |-> 0], close |-> "1.25"],
     [instrument |-> "NQ", timeframe |-> "5m",
      time |-> [sec |-> 9, micro |-> 5], close |-> "1.0"],
     [instrument |-> "ES", timeframe |-> "5m",
      time |-> [sec |-> 10, micro |-> 0], close |-> "1.25"]}

\* datetime.isoformat(), of which the seconds field is kept: two digits, and
\* "." with the microseconds only when they are not 0. A text is the sequence
\* of its character codes ("." is 46, "0" is 48).
IsoFormat(time) ==
    <<48 + (time.sec \div 10), 48 + (time.sec % 10)>>
    \o (IF time.micro = 0 THEN <<>> ELSE <<46, 48 + time.micro>>)

\* datetime.fromisoformat()
FromIsoFormat(text) ==
    [sec |-> 10 * (text[1] - 48) + (text[2] - 48),
     micro |-> IF Len(text) > 2 THEN text[4] - 48 ELSE 0]

\* Comparison of two TEXT values by SQLite: byte by byte, a prefix first.
RECURSIVE TextLessEq(_, _)
TextLessEq(a, b) ==
    IF a = <<>> THEN TRUE
    ELSE IF b = <<>> THEN FALSE
    ELSE IF Head(a) # Head(b) THEN Head(a) < Head(b)
    ELSE TextLessEq(Tail(a), Tail(b))

\* A Python value bound to a REAL column: None is stored as NULL, and so is a
\* NaN (sqlite3 has no NaN).
BindReal(value) ==
    IF value = <<>> \/ value = <<"nan">> THEN "NULL" ELSE value[1]

\* A REAL column read back: NULL gives None.
ReadReal(column) == IF column = "NULL" THEN <<>> ELSE <<column>>

\* save_ticks, lines 98-108: the row of a tick
TickToRow(tick) ==
    [instrument |-> tick.instrument, time |-> IsoFormat(tick.time),
     bid |-> BindReal(tick.bid), last |-> BindReal(tick.last)]

\* _row_to_tick, lines 214-223
RowToTick(row) ==
    [instrument |-> row.instrument, time |-> FromIsoFormat(row.time),
     bid |-> ReadReal(row.bid), last |-> ReadReal(row.last)]

\* save_bars, lines 123-135: the row of a bar
BarToRow(bar) ==
    [instrument |-> bar.instrument, timeframe |-> bar.timeframe,
     time |-> IsoFormat(bar.time), close |-> bar.close]

\* _row_to_bar, lines 225-245
RowToBar(row) ==
    [instrument |-> row.instrument, timeframe |-> row.timeframe,
     time |-> FromIsoFormat(row.time), close |-> row.close]

\* ORDER BY time: the rows by ascending TEXT value, rows of equal time in
\* rowid order.
RECURSIVE OrderByTime(_)
OrderByTime(rows) ==
    IF rows = <<>> THEN <<>>
    ELSE LET first == CHOOSE i \in 1..Len(rows) :
                        /\ \A j \in 1..Len(rows) :
                              TextLessEq(rows[i].time, rows[j].time)
                        /\ \A j \in 1..(i - 1) : rows[j].time # rows[i].time
             rest == [j \in 1..(Len(rows) - 1) |->
                        IF j < first THEN rows[j] ELSE rows[j + 1]]
         IN  <<rows[first]>> \o OrderByTime(rest)

\* LIMIT ?: the first n rows, every row when n is negative
Limit(rows, n) ==
    IF n < 0 \/ n >= Len(rows) THEN rows ELSE SubSeq(rows, 1, n)

\* The batches handed to a save call.
Batches(records) == SeqsUpTo(records, MaxStored)

\* What the storage calls of a run are given: the records of its own table,
\* and one record for the other table.
StorageTasks == {"ticks", "bars"}

TickInputs ==
    IF task = "ticks" THEN StoreTicks
    ELSE {t \in StoreTicks : t.instrument = "ES" /\ t.time.sec = 9}

BarInputs ==
    IF task = "bars" THEN StoreBars
    ELSE {b \in StoreBars : b.timeframe = "1D"}

\* The arguments of the fetch calls.
InstrumentFilters == Optional({"ES"})
TimeframeFilters == Optional({"5m"})
TimeFilters == Optional({[sec |-> 9, micro |-> 5]})
Limits == Optional({0, 1})

\* `if instrument:`, `if timeframe:` : None is false, and so is "".
TruthyText(argument) == argument # <<>> /\ argument[1] # ""

\* `if start:`, `if end:` : None is false, a datetime is true.
TruthyDatetime(argument) == argument # <<>>

\* `if limit:` : None is false, and so is 0.
TruthyNumber(argument) == argument # <<>> /\ argument[1] # 0

\* save_ticks (SQLiteStorageBackend lines 95-118; StorageService.save_ticks
\* delegates): nothing is written for an empty batch, otherwise one row per
\* tick is inserted and committed; the number of ticks is returned.
SaveTicks(ticks) ==
    /\ Len(tickRows) + Len(ticks) <= MaxStored
    /\ tickRows' = tickRows \o [i \in 1..Len(ticks) |-> TickToRow(ticks[i])]
    /\ savedTicks' = savedTicks \o ticks
    /\ lastCall' = [op |-> "save_ticks", given |-> Len(ticks)]
    /\ lastCount' = Len(ticks)
    /\ lastFetched' = <<>>
    /\ UNCHANGED <<runVars, ordVars, mdsVars, hdsVars, connected, simVars, histVars,
                   svcVars, kinVars, barRows, savedBars>>

\* save_bars (lines 120-147)
SaveBars(bars) ==
    /\ Len(barRows) + Len(bars) <= MaxStored
    /\ barRows' = barRows \o [i \in 1..Len(bars) |-> BarToRow(bars[i])]
    /\ savedBars' = savedBars \o bars
    /\ lastCall' = [op |-> "save_bars", given |-> Len(bars)]
    /\ lastCount' = Len(bars)
    /\ lastFetched' = <<>>
    /\ UNCHANGED <<runVars, ordVars, mdsVars, hdsVars, connected, simVars, histVars,
                   svcVars, kinVars, tickRows, savedTicks>>

\* The WHERE clause of fetch_ticks and fetch_bars: a condition is added for
\* each argument that is true.
Selected(row, instrument, timeframe, start, end) ==
    /\ TruthyText(instrument) => row.instrument = instrument[1]
    /\ TruthyText(timeframe) => row.timeframe = timeframe[1]
    /\ TruthyDatetime(start) => TextLessEq(IsoFormat(start[1]), row.time)
    /\ TruthyDatetime(end) => TextLessEq(row.time, IsoFormat(end[1]))

\* The rows of a SELECT ... WHERE ... ORDER BY time [LIMIT ?]
Query(rows, instrument, timeframe, start, end, limit) ==
    LET Test(row) == Selected(row, instrument, timeframe, start, end)
        ordered == OrderByTime(SelectSeq(rows, Test))
    IN  IF TruthyNumber(limit) THEN Limit(ordered, limit[1]) ELSE ordered

\* fetch_ticks (lines 149-176; StorageService.get_ticks delegates)
FetchTicksResult(instrument, start, end, limit) ==
    LET rows == Query(tickRows, instrument, <<>>, start, end, limit)
    IN  [i \in 1..Len(rows) |-> RowToTick(rows[i])]

FetchTicks(instrument, start, end, limit) ==
    /\ task = "ticks"
    /\ lastCall' = [op |-> "fetch_ticks", instrument |-> instrument,
                    start |-> start, end |-> end, limit |-> limit]
    /\ lastFetched' = FetchTicksResult(instrument, start, end, limit)
    /\ lastCount' = -1
    /\ UNCHANGED <<runVars, ordVars, mdsVars, hdsVars, connected, simVars, histVars,
                   svcVars, kinVars, tickRows, barRows, savedTicks, savedBars>>

\* fetch_bars (lines 178-212; StorageService.get_bars delegates)
FetchBarsResult(instrument, timeframe, start, end, limit) ==
    LET rows == Query(barRows, instrument, timeframe, start, end, limit)
    IN  [i \in 1..Len(rows) |-> RowToBar(rows[i])]

FetchBars(instrument, timeframe, start, end, limit) ==
    /\ task = "bars"
    /\ lastCall' = [op |-> "fetch_bars", instrument |-> instrument,
                    timeframe |-> timeframe, start |-> start, end |-> end,
                    limit |-> limit]
    /\ lastFetched' = FetchBarsResult(instrument, timeframe, start, end, limit)
    /\ lastCount' = -1
    /\ UNCHANGED <<runVars, ordVars, mdsVars, hdsVars, connected, simVars, histVars,
                   svcVars, kinVars, tickRows, barRows, savedTicks, savedBars>>

\* A new database file: _ensure_schema has created both tables, empty.
StoInit ==
    /\ tickRows = <<>>
    /\ barRows = <<>>
    /\ savedTicks = <<>>
    /\ savedBars = <<>>
    /\ lastCall = [op |-> "none"]
    /\ lastCount = -1
    /\ lastFetched = <<>>

\* ================================================ the order of the ticks
\* The _stream thread of a subscription with its ticks numbered, and the call
\* of on_tick taken apart from its return.

MaxTicks == 2       \* ticks each _stream thread builds

\* _stream, lines 103-115: the while condition is true, the next tick is built
StreamBuild(s) ==
    /\ loopPc[s] = "check"
    /\ ~(stopFlag[s] \/ globalStop)
    /\ tickNo[s] < MaxTicks
    /\ tickNo' = [tickNo EXCEPT ![s] = @ + 1]
    /\ loopPc' = [loopPc EXCEPT ![s] = "emit"]
    /\ UNCHANGED <<runVars, mdsVars, hdsVars, stoVars, connected, globalStop,
                   subscriptions, lockHolder, stopFlag, subPc, cancelPc,
                   joinTimedOut, mainPc, discIdx, discOverlap, histVars,
                   svcVars, kinVars, cbRunning, cbTicks>>

\* Variant of StreamCall: a tick built while the stop flag was being set is
\* dropped instead of being passed to on_tick.
StreamCallUnlessStopped(s) ==
    /\ loopPc[s] = "emit"
    /\ loopPc' = [loopPc EXCEPT ![s] = "callback"]
    /\ cbRunning' = [cbRunning EXCEPT ![s] = @ + 1]
    /\ cbTicks' = [cbTicks EXCEPT ![s] =
                      IF stopFlag[s] THEN @ ELSE Append(@, tickNo[s])]
    /\ UNCHANGED <<runVars, mdsVars, hdsVars, stoVars, connected, globalStop,
                   subscriptions, lockHolder, stopFlag, subPc, cancelPc,
                   joinTimedOut, mainPc, discIdx, discOverlap, histVars,
                   svcVars, kinVars, tickNo>>

\* _stream, lines 116-117: on_tick(tick) is called with the tick just built,
\* on the thread of the subscription
StreamCall(s) ==
    /\ loopPc[s] = "emit"
    /\ loopPc' = [loopPc EXCEPT ![s] = "callback"]
    /\ cbRunning' = [cbRunning EXCEPT ![s] = @ + 1]
    /\ cbTicks' = [cbTicks EXCEPT ![s] = Append(@, tickNo[s])]
    /\ UNCHANGED <<runVars, mdsVars, hdsVars, stoVars, connected, globalStop,
                   subscriptions, lockHolder, stopFlag, subPc, cancelPc,
                   joinTimedOut, mainPc, discIdx, discOverlap, histVars,
                   svcVars, kinVars, tickNo>>

\* _stream, lines 117-120: on_tick returns or raises (the exception is caught
\* and logged), then time.sleep(self._tick_interval)
StreamCallReturn(s) ==
    /\ loopPc[s] = "callback"
    /\ loopPc' = [loopPc EXCEPT ![s] = "check"]
    /\ cbRunning' = [cbRunning EXCEPT ![s] = @ - 1]
    /\ UNCHANGED <<runVars, mdsVars, hdsVars, stoVars, connected, globalStop,
                   subscriptions, lockHolder, stopFlag, subPc, cancelPc,
                   joinTimedOut, mainPc, discIdx, discOverlap, histVars,
                   svcVars, kinVars, tickNo, cbTicks>>

OrdInit ==
    /\ tickNo = [s \in Subs |-> 0]
    /\ cbRunning = [s \in Subs |-> 0]
    /\ cbTicks = [s \in Subs |-> <<>>]

\* ============================================================ specification

Init ==
    /\ \E run \in Runs : provider = run[1] /\ task = run[2]
    /\ connected = FALSE
    /\ SimInit
    /\ HistInit
    /\ SvcInit
    /\ KinInit
    /\ MdsInit
    /\ HdsInit
    /\ StoInit
    /\ OrdInit

Next ==
    \/ Connect
    \/ DisconnectBegin
    \/ DisconnectLock
    \/ DisconnectSignal
    \/ DisconnectJoinDone
    \/ DisconnectJoinTimeout
    \/ DisconnectClear
    \/ DisconnectFinish
    \/ \E s \in Subs : SubscribeRefused(s)
    \/ \E s \in Subs : SubscribeStart(s)
    \/ \E s \in Subs : SubscribeAppend(s)
    \/ \E s \in Subs : LoopExit(s)
    \/ \E s \in Subs : LoopGenerate(s)
    \/ \E s \in Subs : LoopDeliver(s)
    \/ \E s \in Subs : CancelSet(s)
    \/ \E s \in Subs : CancelJoined(s)
    \/ \E s \in Subs : CancelJoinTimeout(s)
    \/ \E i \in Instruments, tf \in Timeframes, a \in Times, b \in Times :
          SimRequestHistorical(i, tf, a, b)
    \/ EnsureBegin
    \/ EnsureConnectOk
    \/ EnsureConnectFail
    \/ EnsureRetry
    \/ EnsureReturn
    \/ PlainDisconnect
    \/ KinetickConnect
    \/ \E r \in KinetickRequests : KinetickRequestRefused(r[1], r[2])
    \/ \E r \in KinetickRequests : KinetickRequestWrite(r[1], r[2])
    \/ KinetickPollTimeout
    \/ KinetickPollFound
    \/ KinetickPollSleep
    \/ \E id \in Ids, rows \in ExportContents : AgentWriteExport(id, rows)

Spec == Init /\ [][Next]_vars

\* MarketDataService over the client built: the simulated one, or the
\* Kinetick one, which does not support realtime. As in cli/main.py and in
\* the tests, nothing disconnects the client while the service is in use and
\* subscriptions are ended through stop_all.
InitService ==
    /\ provider \in {"simulated", "kinetick"}
    /\ task = "realtime"
    /\ connected = FALSE
    /\ SimInit
    /\ HistInit
    /\ SvcInit
    /\ KinInit
    /\ MdsInit
    /\ HdsInit
    /\ StoInit
    /\ OrdInit

NextService ==
    \/ Connect
    \/ KinetickConnect
    \/ PlainDisconnect
    \/ \E s \in Subs : KinetickSubscribe(s)
    \/ \E s \in Subs : MdsSubscribeUnsupported(s)
    \/ \E s \in Subs : MdsSubscribeBegin(s)
    \/ \E s \in Subs : MdsDelegateStart(s)
    \/ \E s \in Subs : DirectSubscribeStart(s)
    \/ \E s \in Subs : SubscribeAppend(s)
    \/ \E s \in Subs : MdsRecord(s)
    \/ \E s \in Subs : LoopExit(s)
    \/ \E s \in Subs : LoopGenerate(s)
    \/ \E s \in Subs, raises \in BOOLEAN : OnTick(s, raises)
    \/ \E c \in StopCallers : StopAllBegin(c)
    \/ StopAllCancelSet
    \/ StopAllCancelRaises
    \/ StopAllCancelReturn
    \/ StopAllClear

SpecService == InitService /\ [][NextService]_vars

\* The runs that fetch bars: request_historical_data called on the simulated
\* client itself, or get_historical_bars of a HistoricalDataService over it.
HistoricalRuns == {<<"simulated", "historical">>, <<"simulated", "service">>,
                   <<"unreliable", "service">>}

InitHistorical ==
    /\ \E run \in HistoricalRuns : provider = run[1] /\ task = run[2]
    /\ connected = FALSE
    /\ SimInit
    /\ HistInit
    /\ SvcInit
    /\ KinInit
    /\ MdsInit
    /\ HdsInit
    /\ StoInit
    /\ OrdInit

NextHistorical ==
    \/ \E i \in Instruments, tf \in Timeframes, a \in Times, b \in Times :
          HdsBegin(i, tf, a, b)
    \/ HdsConnectOk
    \/ HdsConnectFail
    \/ HdsRequest
    \/ HistoricalDisconnect
    \/ Connect
    \/ \E i \in Instruments, tf \in Timeframes, a \in Times, b \in Times :
          SimRequestHistorical(i, tf, a, b)

SpecHistorical == InitHistorical /\ [][NextHistorical]_vars

\* The scenario of test_market_data_service.py: subscribe through the service
\* on a simulated client that starts disconnected, wait for the callback to
\* be invoked, then cancel through stop_all.
InitTicks == InitService /\ provider = "simulated"

\* test_market_data_service.py, lines 19-21: stop_all is called by the caller
\* once every subscription recorded has had a tick
StopAllAfterTicks ==
    /\ \A i \in 1..Len(mdsSubscriptions) : cbLog[mdsSubscriptions[i]] # "none"
    /\ StopAllBegin(0)

NextTicks ==
    \/ \E s \in Subs : MdsSubscribeBegin(s)
    \/ \E s \in Subs : MdsDelegateStart(s)
    \/ \E s \in Subs : SubscribeAppend(s)
    \/ \E s \in Subs : MdsRecord(s)
    \/ \E s \in Subs : LoopExit(s)
    \/ \E s \in Subs : LoopGenerate(s)
    \/ \E s \in Subs, raises \in BOOLEAN : OnTick(s, raises)
    \/ StopAllAfterTicks
    \/ StopAllCancelSet
    \/ StopAllCancelReturn
    \/ StopAllClear

\* Every thread started keeps being scheduled, and a call in progress goes on.
FairTicks ==
    \A s \in Subs :
        /\ WF_vars(MdsDelegateStart(s))
        /\ WF_vars(SubscribeAppend(s))
        /\ WF_vars(MdsRecord(s))
        /\ WF_vars(LoopExit(s))
        /\ WF_vars(LoopGenerate(s))
        /\ WF_vars(\E raises \in BOOLEAN : OnTick(s, raises))

SpecTicks == InitTicks /\ [][NextTicks]_vars /\ FairTicks

\* ------------------------------------------------- the storage service alone
\* save_ticks, save_bars, get_ticks and get_bars on one database file, as
\* cli/main.py and the tests call them.

InitStorage ==
    /\ provider = "simulated"
    /\ task \in StorageTasks
    /\ connected = FALSE
    /\ SimInit
    /\ HistInit
    /\ SvcInit
    /\ KinInit
    /\ MdsInit
    /\ HdsInit
    /\ StoInit
    /\ OrdInit

NextStorage ==
    \/ \E ticks \in Batches(TickInputs) : SaveTicks(ticks)
    \/ \E bars \in Batches(BarInputs) : SaveBars(bars)
    \/ \E i \in InstrumentFilters, a \in TimeFilters, b \in TimeFilters,
          n \in Limits : FetchTicks(i, a, b, n)
    \/ \E i \in InstrumentFilters, tf \in TimeframeFilters, a \in TimeFilters,
          b \in TimeFilters, n \in Limits : FetchBars(i, tf, a, b, n)

SpecStorage == InitStorage /\ [][NextStorage]_vars

\* ------------------------------- the loop of the simulated historical data
\* request_historical_data on a connected simulated client, its while loop
\* taken one iteration at a time. The thread that runs it is never suspended
\* for ever.

InitBars ==
    /\ provider = "simulated"
    /\ task = "bars"
    /\ connected = FALSE
    /\ SimInit
    /\ HistInit
    /\ SvcInit
    /\ KinInit
    /\ MdsInit
    /\ HdsInit
    /\ StoInit
    /\ OrdInit

NextBars ==
    \/ Connect
    \/ \E i \in Instruments, tf \in LoopTimeframes, a \in LoopTimes,
          b \in LoopTimes : HistLoopBegin(i, tf, a, b)
    \/ HistLoopAppend
    \/ HistLoopReturn

FairBars == WF_vars(HistLoopAppend) /\ WF_vars(HistLoopReturn)

SpecBars == InitBars /\ [][NextBars]_vars /\ FairBars

\* -------------------------------------------- the ticks of each subscription
\* Subscriptions made on a connected simulated client and cancelled by their
\* callers, the ticks of each numbered as its thread builds them.

InitOrder ==
    /\ provider = "simulated"
    /\ task = "realtime"
    /\ connected = FALSE
    /\ SimInit
    /\ HistInit
    /\ SvcInit
    /\ KinInit
    /\ MdsInit
    /\ HdsInit
    /\ StoInit
    /\ OrdInit

NextOrder ==
    \/ Connect
    \/ \E s \in Subs :
          \/ SubscribeStart(s)
          \/ SubscribeAppend(s)
          \/ StreamBuild(s)
          \/ StreamCall(s)
          \/ StreamCallReturn(s)
          \/ LoopExit(s)
          \/ CancelSet(s)
          \/ CancelJoined(s)
          \/ CancelJoinTimeout(s)

SpecOrder == InitOrder /\ [][NextOrder]_vars

\* ------------------------------------------ cancel functions called twice
\* Subscriptions made on the connector or through the service, cancelled by
\* the caller that holds their cancel function, then cancelled again by that
\* caller or by stop_all (cli/main.py lines 101-102).

NextCancel ==
    \/ Connect
    \/ StopAllBegin(0)
    \/ StopAllCancelSet
    \/ StopAllCancelReturn
    \/ StopAllClear
    \/ \E s \in Subs :
          \/ MdsSubscribeBegin(s)
          \/ MdsDelegateStart(s)
          \/ DirectSubscribeStart(s)
          \/ SubscribeAppend(s)
          \/ MdsRecord(s)
          \/ LoopExit(s)
          \/ LoopGenerate(s)
          \/ LoopDeliver(s)
          \/ CallerCancelSet(s)
          \/ CancelJoined(s)
          \/ CancelJoinTimeout(s)
          \/ CancelAgainSet(s)
          \/ CancelAgainReturn(s)

SpecCancel == InitOrder /\ [][NextCancel]_vars

\* ------------------------------------------------ every call runs to its end
\* subscribe_realtime_ticks, stop_all (called by the caller of the service or
\* by a callback), the cancel functions and disconnect(), each on a thread of
\* its own, beside the threads of the subscriptions, with callbacks that
\* return.

NextCalls ==
    \/ DisconnectBegin
    \/ DisconnectLock
    \/ DisconnectSignal
    \/ DisconnectJoinDone
    \/ DisconnectJoinTimeout
    \/ DisconnectClear
    \/ DisconnectFinish
    \/ \E c \in StopCallers : StopAllBegin(c)
    \/ StopAllCancelSet
    \/ StopAllCancelRaises
    \/ StopAllCancelReturn
    \/ StopAllClear
    \/ \E s \in Subs :
          \/ MdsSubscribeBegin(s)
          \/ MdsDelegateStart(s)
          \/ MdsDelegateRefused(s)
          \/ SubscribeAppend(s)
          \/ MdsRecord(s)
          \/ LoopExit(s)
          \/ LoopGenerate(s)
          \/ OnTick(s, FALSE)
          \/ CallerCancelSet(s)
          \/ CancelJoined(s)
          \/ CancelJoinTimeout(s)

SpecCalls == InitOrder /\ [][NextCalls]_vars

\* ================================================================== claims

\* A callback invocation of subscription s: the step that calls on_tick.
Delivers(s) == loopPc[s] = "emit" /\ loopPc'[s] = "check"

\* C1, as stated: once the cancel function of a subscription has returned, no
\* invocation of its callback starts any more, under every interleaving.
C1_NoCallbackAfterCancel ==
    [][\A s \in Subs : cancelPc[s] = "returned" => ~Delivers(s)]_vars

\* C1, amended: once the cancel function has returned after its join saw the
\* loop end (the 1 s join did not time out), no invocation of the callback
\* starts any more.
C1_NoCallbackAfterJoinedCancel ==
    [][\A s \in Subs :
          (cancelPc[s] = "returned" /\ ~joinTimedOut[s]) => ~Delivers(s)]_vars

\* A cancel returned with its join completed, the loop stopped by the
\* subscription's own flag.
C1_Witness ==
    \E s \in Subs :
        /\ cancelPc[s] = "returned"
        /\ ~joinTimedOut[s]
        /\ loopPc[s] = "dead"
        /\ ~globalStop

\* C2: when disconnect() has returned (no subscribe or cancel call involved),
\* no generation loop is running, the subscription list is empty and
\* is_connected is false.
C2_DisconnectLeavesNothingRunning ==
    (/\ mainPc = "returned"
     /\ ~discOverlap
     /\ \A s \in Subs : cancelPc[s] = "idle")
    => /\ \A s \in Subs : loopPc[s] \in {"none", "dead"}
       /\ subscriptions = <<>>
       /\ ~connected

\* No subscribe, cancel or disconnect call is in progress.
AllCallsReturned ==
    /\ mainPc \in {"idle", "returned"}
    /\ \A s \in Subs : subPc[s] # "started" /\ cancelPc[s] # "joining"

\* C3: once every subscribe, cancel and disconnect call has returned and
\* is_connected is false, the subscription list is empty.
C3_DisconnectDoesNotRaceSubscribe ==
    (AllCallsReturned /\ ~connected) => subscriptions = <<>>

\* C4: at the return of ensure_connection no ConnectionError has been
\* surfaced, is_connected is true, and connect() was not called when the
\* client was connected on entry.
C4_EnsureConnectionReturnsConnected ==
    svcPc = "returned"
    => /\ svcOutcome = "ok"
       /\ connected
       /\ (svcEntryConnected => connectCalls = 0)

\* ensure_connection returned after connect() had failed.
C4_Witness ==
    svcPc = "returned" /\ connectFails > 0 /\ connected

\* C5: ensure_connection entered without a connection returns after exactly
\* one more connect() call than connect() failed, and for as long as every
\* connect() call has failed it is still inside its loop.
C5_EnsureConnectionRetriesUntilSuccess ==
    /\ (svcPc = "returned" /\ ~svcEntryConnected)
       => connectCalls = connectFails + 1
    /\ svcPc \in {"loop", "backoff"}
       => (connectCalls = connectFails /\ ~connected)
    /\ connectCalls > connectFails => svcPc \in {"returned", "idle"}

\* ensure_connection returned after the largest number of failures modelled.
C5_Witness ==
    svcPc = "returned" /\ connectFails = MaxFail /\ connectCalls = MaxFail + 1

\* The request that ended last was written to the commands directory.
RequestIssued == reqPc = "done" /\ reqOutcome # "ConnectionError"

\* C6: a request whose export file never appeared ends with TimeoutError, and
\* after a TimeoutError its command file does not exist.
C6_TimeoutRemovesCommandFile ==
    RequestIssued
    => /\ reqId \notin agentWritten => reqOutcome = "TimeoutError"
       /\ reqOutcome = "TimeoutError" => reqId \notin cmdFiles

\* A request that polled, saw no export file and timed out.
C6_Witness ==
    /\ reqPc = "done"
    /\ reqOutcome = "TimeoutError"
    /\ reqId \notin agentWritten
    /\ reqElapsed > 0

\* C7: the commands directory holds the command file of the request in
\* progress and nothing else, whichever way the earlier requests ended.
C7_CommandFileAlwaysRemoved ==
    cmdFiles = IF reqPc = "polling" THEN {reqId} ELSE {}

\* A second request ended with an error raised by the parser.
C7_Witness ==
    reqPc = "done" /\ reqOutcome = "ValueError" /\ reqId > 1

\* The rows of an export file that carry a date that parses.
ParsableRows(rows) == SelectSeq(rows, LAMBDA row : DateParses(row.date))

\* C8: a request that returns gives one bar per parsable row, in row order,
\* tagged with the requested instrument and "1D", and the export file is gone.
C8_OneBarPerParsableRow ==
    (reqPc = "done" /\ reqOutcome = "returned")
    => /\ Len(reqBars) = Len(ParsableRows(exportRows))
       /\ \A i \in 1..Len(reqBars) :
             /\ reqBars[i].time = ParseDate(ParsableRows(exportRows)[i].date)
             /\ reqBars[i].instrument = reqInstrument
             /\ reqBars[i].timeframe = "1D"
       /\ reqId \notin exportFiles

\* Two bars returned for a request made with timeframe "5m".
C8_Witness ==
    /\ reqPc = "done"
    /\ reqOutcome = "returned"
    /\ reqTimeframe = "5m"
    /\ Len(reqBars) = 2
    /\ reqBars[1].time # reqBars[2].time

\* The request found its export file (it ended otherwise than by a refusal
\* or a timeout).
ExportFound == RequestIssued /\ reqOutcome # "TimeoutError"

\* C9, as stated: an export file without any parsable row makes the request
\* return an empty sequence, with the export file and the command file removed.
C9_NoParsableRowsReturnsEmpty ==
    (ExportFound /\ ParsableRows(exportRows) = <<>>)
    => /\ reqOutcome = "returned"
       /\ reqBars = <<>>
       /\ reqId \notin exportFiles
       /\ reqId \notin cmdFiles

\* C9, amended: an export file in which no row carries a date value (no data
\* rows, or rows whose date is missing or empty) makes the request return an
\* empty sequence, with the export file and the command file removed.
C9_NoDatedRowsReturnsEmpty ==
    (ExportFound /\ \A i \in 1..Len(exportRows) : exportRows[i].date = "")
    => /\ reqOutcome = "returned"
       /\ reqBars = <<>>
       /\ reqId \notin exportFiles
       /\ reqId \notin cmdFiles

\* A request returned no bars from an export file that had rows.
C9_Witness ==
    /\ ExportFound
    /\ Len(exportRows) > 0
    /\ \A i \in 1..Len(exportRows) : exportRows[i].date = ""
    /\ reqBars = <<>>

\* C10: every operation begun while is_connected is false ends with
\* ConnectionError and changes nothing: subscribe starts no loop and leaves
\* the subscription list alone, the simulated request returns no bars, the
\* Kinetick request writes no command file.
C10_DisconnectedOperationsRefused ==
    [][~connected =>
        /\ \A s \in Subs :
              subPc'[s] # subPc[s] /\ subPc[s] = "idle"
              => /\ subPc'[s] = "failed"
                 /\ loopPc' = loopPc
                 /\ subscriptions' = subscriptions
        /\ histVars' # histVars
              => histOutcome' = "ConnectionError" /\ histBars' = <<>>
        /\ (reqPc # "polling" /\ <<reqPc, reqOutcome, reqId, nextId>>' # <<reqPc, reqOutcome, reqId, nextId>>)
              => /\ reqOutcome' = "ConnectionError"
                 /\ reqBars' = <<>>
                 /\ cmdFiles' = cmdFiles
                 /\ nextId' = nextId
      ]_vars

\* An operation was refused for want of a connection.
C10_Witness ==
    /\ ~connected
    /\ \/ \E s \in Subs : subPc[s] = "failed" /\ loopPc[s] = "none"
       \/ histOutcome = "ConnectionError"
       \/ reqOutcome = "ConnectionError" /\ cmdFiles = {}

\* C11: on a client without realtime support, every subscribe_realtime_ticks
\* call ends with NotImplementedError and changes nothing else: is_connected
\* is as before (no connect()), no subscribe_market_data call was made, no
\* loop was started and the service's subscription list is as before.
C11_UnsupportedSubscribeRefused ==
    [][~SupportsRealtime =>
        \A s \in Subs :
            mdsPc'[s] # mdsPc[s]
            => /\ mdsPc'[s] = "unsupported"
               /\ connected' = connected
               /\ subPc' = subPc
               /\ loopPc' = loopPc
               /\ subscriptions' = subscriptions
               /\ mdsSubscriptions' = mdsSubscriptions
      ]_vars

\* subscribe_realtime_ticks was refused on a Kinetick client never connected.
C11_Witness ==
    /\ provider = "kinetick"
    /\ ~connected
    /\ mdsPc[1] = "unsupported"
    /\ mdsSubscriptions = <<>>

\* C12: the Kinetick client does not support realtime, and each of its
\* subscribe_market_data calls ends with NotImplementedError, connected or
\* not, leaving is_connected, the files and the requests as they were.
C12_KinetickSubscribeUnsupported ==
    [][provider = "kinetick" =>
        /\ ~SupportsRealtime
        /\ \A s \in Subs :
              subPc'[s] # subPc[s]
              => /\ subPc'[s] = "unsupported"
                 /\ connected' = connected
                 /\ kinVars' = kinVars
                 /\ loopPc' = loopPc
                 /\ subscriptions' = subscriptions
      ]_vars

\* Every subscribe_market_data call made on the Kinetick client was refused,
\* whatever is_connected was; the client is now disconnected.
C12_Witness ==
    /\ provider = "kinetick"
    /\ ~connected
    /\ \A s \in Subs : subPc[s] = "unsupported"

\* C13: while stop_all runs, the cancel functions it has passed have been
\* invoked once each and the others not yet; when it returns, every recorded
\* cancel function has been invoked exactly once, whether or not one of them
\* raised, and the service's subscription list is empty.
C13_StopAllInvokesEveryCancelOnce ==
    [][/\ stopPc # "idle"
          => \A i \in 1..Len(mdsSubscriptions) :
                cancelCalls[mdsSubscriptions[i]] =
                    IF i < stopIdx \/ (i = stopIdx /\ stopPc = "join")
                    THEN 1 ELSE 0
       /\ (stopPc # "idle" /\ stopPc' = "idle")
          => /\ \A i \in 1..Len(mdsSubscriptions) :
                   cancelCalls[mdsSubscriptions[i]] = 1
             /\ mdsSubscriptions' = <<>>
      ]_vars

\* stop_all is about to clear a list of two cancel functions of which the
\* first raised and the second was invoked all the same.
C13_Witness ==
    /\ stopPc = "iter"
    /\ Len(mdsSubscriptions) = 2
    /\ stopIdx > Len(mdsSubscriptions)
    /\ mdsSubscriptions[1] \in cancelRaised
    /\ cancelCalls[mdsSubscriptions[2]] = 1

\* C14: get_historical_bars calls connect() at most once, and not at all when
\* the client was connected on entry; when it has ended, a client found
\* disconnected was connected to exactly once, a ConnectionError of connect()
\* has reached the caller without any request_historical_data call, and
\* otherwise request_historical_data was called once and the bars returned
\* are those it gives for the arguments received.
C14_GetHistoricalBarsConnectsOnce ==
    /\ hdsConnectCalls <= 1
    /\ hdsRequestCalls <= 1
    /\ hdsEntryConnected => hdsConnectCalls = 0
    /\ hdsPc = "done"
       => /\ ~hdsEntryConnected => hdsConnectCalls = 1
          /\ IF hdsOutcome = "ConnectionError"
             THEN hdsRequestCalls = 0 /\ hdsBars = <<>> /\ ~connected
             ELSE /\ hdsOutcome = "returned"
                  /\ hdsRequestCalls = 1
                  /\ hdsBars = GenerateBars(hdsArgs.instrument,
                                            hdsArgs.timeframe, hdsArgs.start,
                                            hdsArgs.end,
                                            TimeframeToTimedelta(hdsArgs.timeframe))

\* get_historical_bars ended with the ConnectionError of its one connect().
C14_Witness ==
    /\ hdsPc = "done"
    /\ hdsOutcome = "ConnectionError"
    /\ hdsConnectCalls = 1
    /\ hdsRequestCalls = 0

\* The interval each timeframe string stands for, in seconds: "m", "1m", "2m",
\* "90s", "1h", and "1D", whose unit is not one of s, m, h.
ExpectedSeconds(timeframe) ==
    CASE timeframe = <<"m">> -> 60
      [] timeframe = <<"1", "m">> -> 60
      [] timeframe = <<"2", "m">> -> 2 * 60
      [] timeframe = <<"9", "0", "s">> -> 90
      [] timeframe = <<"1", "h">> -> 60 * 60
      [] timeframe = <<"1", "D">> -> 60

\* C16: a simulated request_historical_data that returns gives bars stamped
\* start, start + d, start + 2d, ... for the interval d of the timeframe:
\* every bar is before end, the stamp after the last one is not, there is no
\* bar when start >= end, and every bar carries the instrument and the
\* timeframe requested.
C16_BarsStepFromStartToEnd ==
    histOutcome = "returned"
    => LET d == TimeframeToTimedelta(histArgs.timeframe)
           n == Len(histBars)
       IN  /\ \A k \in 1..n :
                 /\ histBars[k].time = histArgs.start + (k - 1) * d
                 /\ histBars[k].time < histArgs.end
                 /\ histBars[k].instrument = histArgs.instrument
                 /\ histBars[k].timeframe = histArgs.timeframe
           /\ histArgs.start + n * d >= histArgs.end
           /\ histArgs.start >= histArgs.end => n = 0
           /\ histArgs.start < histArgs.end => n > 0

\* A request returned three bars, the stamp after the last being end itself.
C16_Witness ==
    /\ histOutcome = "returned"
    /\ Len(histBars) = 3
    /\ histArgs.start > 0
    /\ histBars[3].time + TimeframeToTimedelta(histArgs.timeframe) = histArgs.end

\* C17: the interval derived from the timeframe of a request is the integer
\* prefix (1 when empty) in seconds, minutes or hours for the units s, m, h,
\* and one minute for any other unit; the bars returned are that far apart.
C17_TimeframeInterval ==
    histOutcome = "returned"
    => /\ TimeframeToTimedelta(histArgs.timeframe)
             = ExpectedSeconds(histArgs.timeframe)
       /\ \A k \in 2..Len(histBars) :
             histBars[k].time - histBars[k - 1].time
                 = ExpectedSeconds(histArgs.timeframe)

\* Bars one minute apart were returned for a timeframe whose unit is unknown.
C17_Witness ==
    /\ histOutcome = "returned"
    /\ histArgs.timeframe = <<"1", "D">>
    /\ Len(histBars) >= 2
    /\ histBars[2].time - histBars[1].time = 60

\* C15: a subscribe_realtime_ticks call begun on a simulated client leads to
\* the client being connected and the caller's callback having received a
\* tick of the instrument subscribed to, the subscription not yet cancelled
\* when the first tick arrives.
C15_SubscribedTickDelivered ==
    /\ \A s \in Subs :
          (mdsPc[s] = "ensured")
          ~> (connected /\ cbInstrument[s] = SubInstrument(s))
    /\ [][\A s \in Subs :
             (cbInstrument[s] = "none" /\ cbInstrument'[s] # "none")
             => ~stopFlag[s] /\ connected]_vars

\* The callback of a subscription made through the service has had a tick of
\* its instrument, the subscription still running.
C15_Witness ==
    /\ connected
    /\ mdsPc[1] = "returned"
    /\ cbInstrument[1] = SubInstrument(1)
    /\ ~stopFlag[1]
    /\ loopPc[1] # "dead"

\* C20: the step in which a callback returns or raises takes the loop of its
\* subscription back to its while test and touches no other subscription and
\* no subscribe call; a loop ends only with its stop flag or the client's set;
\* and a loop whose callback has raised, not stopped, builds its next tick.
C20_CallbackExceptionContained ==
    [][\A s \in Subs :
          /\ (loopPc[s] = "emit" /\ loopPc'[s] # "emit")
             => /\ loopPc'[s] = "check"
                /\ \A r \in Subs \ {s} :
                      loopPc'[r] = loopPc[r] /\ cbLog'[r] = cbLog[r]
                /\ subPc' = subPc
                /\ mdsPc' = mdsPc
                /\ stopFlag' = stopFlag
                /\ subscriptions' = subscriptions
                /\ mdsSubscriptions' = mdsSubscriptions
          /\ (loopPc[s] # "dead" /\ loopPc'[s] = "dead")
             => (stopFlag[s] \/ globalStop)
          /\ (cbLog[s] = "raised" /\ loopPc[s] = "check"
              /\ ~stopFlag[s] /\ ~globalStop)
             => ENABLED LoopGenerate(s)
      ]_vars

\* Two running subscriptions, one made on the client and one through the
\* service, whose callbacks have both raised and then received a later tick.
C20_Witness ==
    \E s \in Subs, r \in Subs :
        /\ mdsPc[s] = "idle" /\ subPc[s] = "returned"
        /\ mdsPc[r] = "returned"
        /\ cbLog[s] = "recovered" /\ cbLog[r] = "recovered"
        /\ loopPc[s] # "dead" /\ loopPc[r] # "dead"
        /\ ~stopFlag[s] /\ ~stopFlag[r]

\* How often a record occurs in a sequence of records.
Occurrences(record, records) ==
    Cardinality({i \in 1..Len(records) : records[i] = record})

\* Every record of `records` occurs in `within` at least as often.
EachOccursIn(records, within) ==
    \A i \in 1..Len(records) :
        Occurrences(records[i], records) <= Occurrences(records[i], within)

\* C18: after any sequence of save_ticks and save_bars calls, an unfiltered
\* fetch returns every record saved so far with all its fields unchanged (a
\* bar's timeframe identical, a tick's absent fields still absent) and nothing
\* else, whichever table the later saves went to; each save returns the
\* number of records it was given, 0 for an empty batch.
C18_StorageRoundTrip ==
    /\ lastCall.op \in {"save_ticks", "save_bars"}
          => lastCount = lastCall.given
    /\ ( /\ lastCall.op = "fetch_ticks"
         /\ lastCall.instrument = <<>> /\ lastCall.limit = <<>>
         /\ lastCall.start = <<>> /\ lastCall.end = <<>> )
          => /\ EachOccursIn(savedTicks, lastFetched)
             /\ Len(lastFetched) = Len(savedTicks)
    /\ ( /\ lastCall.op = "fetch_bars"
         /\ lastCall.instrument = <<>> /\ lastCall.timeframe = <<>>
         /\ lastCall.limit = <<>>
         /\ lastCall.start = <<>> /\ lastCall.end = <<>> )
          => /\ EachOccursIn(savedBars, lastFetched)
             /\ Len(lastFetched) = Len(savedBars)

\* The order of two datetime values.
DatetimeLess(a, b) ==
    a.sec < b.sec \/ (a.sec = b.sec /\ a.micro < b.micro)

\* The records now in a table, as an unfiltered fetch reads them.
StoredRecords ==
    IF lastCall.op = "fetch_ticks"
    THEN [i \in 1..Len(tickRows) |-> RowToTick(tickRows[i])]
    ELSE [i \in 1..Len(barRows) |-> RowToBar(barRows[i])]

\* The stored records that match every filter given to the last fetch call.
Matching ==
    LET Matches(record) ==
            /\ lastCall.instrument # <<>>
                  => record.instrument = lastCall.instrument[1]
            /\ (lastCall.op = "fetch_bars" /\ lastCall.timeframe # <<>>)
                  => record.timeframe = lastCall.timeframe[1]
            /\ lastCall.start # <<>>
                  => ~DatetimeLess(record.time, lastCall.start[1])
            /\ lastCall.end # <<>>
                  => ~DatetimeLess(lastCall.end[1], record.time)
    IN  SelectSeq(StoredRecords, Matches)

\* C19: fetch_ticks and fetch_bars return stored records that match every
\* filter given, in ascending order of time; without a limit they return all
\* of them, and with a limit n, 0 included, they return the n earliest (all
\* of them when there are fewer than n).
C19_FetchReturnsMatchesInOrderUpToLimit ==
    lastCall.op \in {"fetch_ticks", "fetch_bars"} =>
        /\ EachOccursIn(lastFetched, Matching)
        /\ \A i \in 1..Len(lastFetched), j \in 1..Len(lastFetched) :
              i < j => ~DatetimeLess(lastFetched[j].time, lastFetched[i].time)
        /\ lastCall.limit = <<>> => Len(lastFetched) = Len(Matching)
        /\ lastCall.limit # <<>> =>
              /\ Len(lastFetched) <= lastCall.limit[1]
              /\ Len(lastFetched) < lastCall.limit[1]
                    => Len(lastFetched) = Len(Matching)
              /\ \A i \in 1..Len(Matching) :
                    Occurrences(Matching[i], lastFetched)
                        < Occurrences(Matching[i], Matching)
                    => \A j \in 1..Len(lastFetched) :
                          ~DatetimeLess(Matching[i].time, lastFetched[j].time)

\* C22: a connector that was disconnected and connected again behaves like a
\* fresh one: when subscribe_market_data starts the thread of a subscription
\* and no disconnect() is running, the while condition of its loop is true
\* (neither stop flag is set), so that the loop generates ticks until the
\* subscription is cancelled or the connector disconnected again.
C22_SubscriptionAfterReconnectStreams ==
    [][ \A s \in Subs :
          (loopPc[s] = "none" /\ loopPc'[s] = "check" /\ ~Disconnecting')
             => ~(stopFlag'[s] \/ globalStop')
      ]_vars

\* C23: request_historical_data ends with TimeoutError only when the export
\* file of the request is absent: a request that ends while its export file
\* exists, whatever the timeout (0 included), has read that file.
C23_TimeoutOnlyWhenExportAbsent ==
    [][ (reqPc = "polling" /\ reqPc' = "done" /\ reqId \in exportFiles)
          => /\ reqOutcome' # "TimeoutError"
             /\ reqOutcome' = "returned"
                   => reqBars' = ParseRows(exportRows, reqInstrument).bars
      ]_vars

\* C24: no export file is orphaned: an export file exists only for the
\* request in progress, which is the one call that can delete it; none is
\* left by a request that ended, with bars, TimeoutError or ValueError.
C24_NoOrphanExportFile ==
    \A id \in exportFiles : id = reqId /\ reqPc = "polling"

C21_TicksDeliveredInGenerationOrder ==
    \A s \in Subs :
        /\ cbRunning[s] \in {0, 1}
        /\ cbRunning[s] = 1 <=> loopPc[s] = "callback"
        /\ cbTicks[s] = [k \in 1..Len(cbTicks[s]) |-> k]
        /\ Len(cbTicks[s]) = IF loopPc[s] = "emit" THEN tickNo[s] - 1
                             ELSE tickNo[s]

\* Two subscriptions whose callbacks have each been given the ticks 1 and 2:
\* the thread of one has ended, after a cancel() whose join gave up while it
\* was still alive, and the callback of the other is running.
C21_Witness ==
    \E s \in Subs, r \in Subs :
        /\ s # r
        /\ cbTicks[s] = <<1, 2>> /\ cbTicks[r] = <<1, 2>>
        /\ loopPc[s] = "dead" /\ cancelPc[s] = "returned" /\ joinTimedOut[s]
        /\ loopPc[r] = "callback"

\* The entries of the connector's list other than that of subscription s.
OtherEntries(list, s) == SelectSeq(list, LAMBDA x : x # s)

\* C27: cancelling one subscription affects only that subscription: a step of
\* the cancel function of s leaves every other subscription's entry in the
\* connector's list (in the same order), its stop flag, the position of its
\* thread and the ticks it has built and delivered as they were, also while
\* the cancel function of another subscription is running.
C27_CancelAffectsOnlyItsSubscription ==
    [][ \A s \in Subs :
          cancelPc'[s] # cancelPc[s]
          => /\ OtherEntries(subscriptions', s) = OtherEntries(subscriptions, s)
             /\ globalStop' = globalStop
             /\ \A r \in Subs \ {s} :
                   /\ stopFlag'[r] = stopFlag[r]
                   /\ loopPc'[r] = loopPc[r]
                   /\ tickNo'[r] = tickNo[r]
                   /\ cbTicks'[r] = cbTicks[r]
      ]_vars

\* One subscription has been cancelled and its entry dropped, after its
\* thread ended; the other is still in the list with its stop flag unset, and
\* its callback is running with the last tick its thread builds.
C27_Witness ==
    \E s \in Subs, r \in Subs :
        /\ s # r
        /\ cancelPc[s] = "returned" /\ loopPc[s] = "dead" /\ ~joinTimedOut[s]
        /\ \A i \in 1..Len(subscriptions) : subscriptions[i] # s
        /\ \E i \in 1..Len(subscriptions) : subscriptions[i] = r
        /\ ~stopFlag[r]
        /\ loopPc[r] = "callback" /\ tickNo[r] = MaxTicks

\* C26: the cancel function is idempotent: once the caller's first call has
\* returned, no step of a second call, made by the caller or by stop_all,
\* raises an error or changes the connector's list, a stop flag or a thread.
C26_SecondCancelChangesNothing ==
    [][ \A s \in Subs :
          /\ (cancelPc[s] \in {"returned", "joining again"}
              /\ cancelPc'[s] # cancelPc[s])
             => /\ cancelPc'[s] # "raised"
                /\ subscriptions' = subscriptions
                /\ stopFlag' = stopFlag /\ globalStop' = globalStop
                /\ loopPc' = loopPc
          /\ (stopPc \in {"iter", "join"} /\ stopPc' # stopPc
              /\ stopIdx <= Len(mdsSubscriptions)
              /\ mdsSubscriptions[stopIdx] = s
              /\ cancelPc[s] \in {"returned", "returned again"})
             => /\ s \notin cancelRaised'
                /\ subscriptions' = subscriptions
                /\ stopFlag' = stopFlag /\ globalStop' = globalStop
                /\ loopPc' = loopPc
      ]_vars

\* A subscription made on the connector whose cancel function the caller has
\* called twice, and one made through the service that the caller cancelled
\* and stop_all has then cancelled again, while its thread was still alive.
C26_Witness ==
    \E s \in Subs, r \in Subs :
        /\ mdsPc[s] = "idle" /\ cancelPc[s] = "returned again"
        /\ mdsPc[r] = "returned" /\ cancelPc[r] = "returned"
        /\ stopPc = "iter" /\ cancelCalls[r] = 1 /\ stopIdx = 2
        /\ loopPc[r] # "dead"

\* The calls in progress and the threads of the subscriptions.
Agents ==
    {<<"disconnect", 0>>, <<"stop_all", 0>>}
        \cup ({"subscribe", "cancel", "thread"} \X Subs)

InProgress(a) ==
    CASE a[1] = "disconnect" -> Disconnecting
      [] a[1] = "stop_all" -> stopPc # "idle"
      [] a[1] = "subscribe" -> mdsPc[a[2]] = "ensured"
      [] a[1] = "cancel" -> cancelPc[a[2]] = "joining"
      [] a[1] = "thread" -> loopPc[a[2]] \in {"check", "emit"}

\* The agent can take its next step now.
CanStep(a) ==
    CASE a[1] = "disconnect" ->
            ENABLED (\/ DisconnectLock
                     \/ DisconnectSignal
                     \/ DisconnectJoinDone
                     \/ DisconnectJoinTimeout
                     \/ DisconnectClear
                     \/ DisconnectFinish)
      [] a[1] = "stop_all" ->
            ENABLED (\/ StopAllCancelSet
                     \/ StopAllCancelRaises
                     \/ StopAllCancelReturn
                     \/ StopAllClear)
      [] a[1] = "subscribe" ->
            ENABLED (\/ MdsDelegateStart(a[2])
                     \/ MdsDelegateRefused(a[2])
                     \/ SubscribeAppend(a[2])
                     \/ MdsRecord(a[2]))
      [] a[1] = "cancel" ->
            ENABLED (CancelJoined(a[2]) \/ CancelJoinTimeout(a[2]))
      [] a[1] = "thread" ->
            ENABLED (\/ LoopExit(a[2])
                     \/ LoopGenerate(a[2])
                     \/ OnTick(a[2], FALSE))

\* What an agent that cannot step is waiting for: the holder of a lock, the
\* thread it joins, or the stop_all its callback is inside.
WaitsFor(a) ==
    LET connectorLock ==
            IF lockHolder = "disconnect" THEN {<<"disconnect", 0>>} ELSE {}
        serviceLock ==
            IF mdsLock = "stop_all" THEN {<<"stop_all", 0>>} ELSE {}
    IN  CASE a[1] = "disconnect" ->
                IF mainPc = "join"
                THEN {<<"thread", subscriptions[discIdx]>>}
                ELSE {}
          [] a[1] = "stop_all" -> connectorLock
          [] a[1] = "subscribe" -> connectorLock \cup serviceLock
          [] a[1] = "cancel" -> connectorLock \cup {<<"thread", a[2]>>}
          [] a[1] = "thread" ->
                IF InStopAll(a[2]) THEN {<<"stop_all", 0>>} ELSE {}

\* The agents that can step, and those that wait, through at most n others,
\* for one that can.
RECURSIVE Unblocked(_)
Unblocked(n) ==
    IF n = 0
    THEN {a \in Agents : CanStep(a)}
    ELSE LET before == Unblocked(n - 1)
         IN  before \cup {a \in Agents : WaitsFor(a) \cap before # {}}

\* The number of steps a call in progress is from its return, at most.
StepsLeft(a) ==
    CASE a[1] = "disconnect" ->
            LET left == Len(subscriptions) - discIdx + 1
            IN  CASE mainPc = "wantlock" -> 2 * MaxSubs + 3
                  [] mainPc = "iter" -> 2 * left + 2
                  [] mainPc = "join" -> 2 * left + 1
                  [] mainPc = "unlocked" -> 1
                  [] OTHER -> 0
      [] a[1] = "stop_all" ->
            LET left == Len(mdsSubscriptions) - stopIdx + 1
            IN  CASE stopPc = "iter" -> 2 * left + 1
                  [] stopPc = "join" -> 2 * left
                  [] OTHER -> 0
      [] a[1] = "subscribe" ->
            IF mdsPc[a[2]] # "ensured" THEN 0
            ELSE CASE subPc[a[2]] = "idle" -> 3
                   [] subPc[a[2]] = "started" -> 2
                   [] OTHER -> 1
      [] a[1] = "cancel" -> IF cancelPc[a[2]] = "joining" THEN 1 ELSE 0
      [] a[1] = "thread" -> 0

\* The position of a call, which only its own steps change.
Position(a) ==
    CASE a[1] = "disconnect" -> <<mainPc, discIdx>>
      [] a[1] = "stop_all" -> <<stopPc, stopIdx>>
      [] a[1] = "subscribe" -> <<mdsPc[a[2]], subPc[a[2]]>>
      [] a[1] = "cancel" -> <<cancelPc[a[2]], 0>>
      [] a[1] = "thread" -> <<"", 0>>

\* C28: no deadlock, every call returns: every subscribe_realtime_ticks call,
\* stop_all, cancel call and disconnect() in progress can take its next step,
\* or waits for a lock or a thread whose holder can, directly or through a
\* chain of such waits (the two locks are never held in a cycle and no join
\* waits for a thread that waits for the joiner); and every step of a call
\* brings it nearer to its return, while no step of another thread takes it
\* further away.
C28_EveryCallReturns ==
    /\ [](\A a \in Agents :
            InProgress(a) => a \in Unblocked(Cardinality(Agents)))
    /\ [][\A a \in Agents \ ({"thread"} \X Subs) :
            InProgress(a) =>
                IF Position(a)' # Position(a)
                THEN StepsLeft(a)' < StepsLeft(a)
                ELSE StepsLeft(a)' <= StepsLeft(a)]_vars

\* disconnect() holds the connector's lock and joins the thread of a
\* subscription whose callback is inside stop_all, holding the service lock
\* and waiting for the connector's lock to end the cancel of the other one.
C28_Witness ==
    \E s \in Subs :
        /\ mainPc = "join" /\ lockHolder = "disconnect"
        /\ subscriptions[discIdx] = s
        /\ loopPc[s] = "emit"
        /\ mdsLock = "stop_all" /\ stopCaller = s /\ stopPc = "join"
        /\ mdsSubscriptions[stopIdx] # s

====
